---- MODULE Spec2Model ----
(***************************************************************************)
(* Takeoff / landing performance engine of the A380X (fbw-a380x shared     *)
(* performance sources).                                                   *)
(*                                                                         *)
(* The engine is a set of public operations of two calculator classes and  *)
(* a few module-level functions.  Every operation is modelled as one       *)
(* action that takes the caller's arguments and stores the value the       *)
(* operation returns; the computation itself is an operator written from   *)
(* the body of the method it models.                                       *)
(*                                                                         *)
(* Numbers.  The source computes in IEEE doubles; the model computes in    *)
(* fixed point on integers:                                                *)
(*   weights      kg                                                       *)
(*   temperatures hundredths of a degree Celsius                           *)
(*   lengths      tenths of a metre (runway) / hundredths (landing)        *)
(*   speeds       thousandths of a knot                                    *)
(*   CG, slope    hundredths of a percent                                  *)
(* Every product that is divided by a scale is rounded toward minus        *)
(* infinity (MulDiv).  NaN is the value NaN; a property that is undefined   *)
(* is a field the record does not have.                                    *)
(***************************************************************************)
EXTENDS Integers, Sequences, FiniteSets, TLC

VARIABLES pc, op, args, ret, vec2Cache, vec4Cache, resultCache, returned, tasks

\* The static members of the two calculator classes, one of each per class:
\* the scratch vectors the vector lookups store into, and the object the
\* forceToga re-entry is handed as `out`.
statics == <<vec2Cache, vec4Cache, resultCache>>

\* What callers hold: the result objects earlier calls returned, and the
\* calls that are under way when several run at once.
callers == <<returned, tasks>>

vars == <<pc, op, args, ret, vec2Cache, vec4Cache, resultCache, returned, tasks>>

Undef == "undefined"

\* NaN and Infinity are carried in the integer lanes as values no weight,
\* temperature or speed of the model can take
NaN == -2000000001
Infinity == 2000000001

----------------------------------------------------------------------------
(* Arithmetic helpers *)

Min2(a, b) == IF a <= b THEN a ELSE b
Max2(a, b) == IF a >= b THEN a ELSE b
Abs(a) == IF a < 0 THEN -a ELSE a
Sign(a) == IF a > 0 THEN 1 ELSE IF a < 0 THEN -1 ELSE 0

\* x * y = Q * d + R with 0 <= R < d, for 0 <= x, 0 <= y < d, by binary long
\* multiplication: no intermediate value exceeds 3 * d
RECURSIVE longMulDivMod(_, _, _)
longMulDivMod(x, y, d) ==
  IF x = 0 THEN <<0, 0>>
  ELSE LET h == longMulDivMod(x \div 2, y, d)
           r == 2 * h[2] + (x % 2) * y
       IN  <<2 * h[1] + r \div d, r % d>>

\* floor(a * b / d) for d > 0, exactly, without forming a * b:
\*   a = qa * d + ra, b = qb * d + rb,  a * b / d = qa * b + ra * qb + ra * rb / d
MulDiv(a, b, d) ==
  LET qa == a \div d  ra == a % d
      qb == b \div d  rb == b % d
  IN  qa * b + ra * qb
        + (IF ra = 0 \/ rb <= 2147483647 \div ra
             THEN (ra * rb) \div d
             ELSE longMulDivMod(ra, rb, d)[1])

\* Math.round of a value carried in hundredths: nearest integer, ties upward
RoundC(xC) == (xC + 50) \div 100

\* Math.ceil of the quotient a / d, d > 0
CeilDiv(a, d) == -((-a) \div d)

\* Math.trunc of a value carried in hundredths, result again in hundredths
TruncC(xC) == IF xC >= 0 THEN (xC \div 100) * 100 ELSE -(((-xC) \div 100) * 100)

----------------------------------------------------------------------------
(* getCrosswindLimit *)

RunwayCondition ==
  {"Dry", "Wet", "ContaminatedCompactedSnow", "Contaminated10mmDrySnow",
   "Contaminated100mmDrySnow", "Contaminated5mmWetSnow",
   "Contaminated15mmWetSnow", "Contaminated30mmWetSnow",
   "Contaminated6mmWater", "Contaminated13mmWater", "Contaminated6mmSlush",
   "Contaminated13mmSlush"}

SnowConditions ==
  {"Contaminated10mmDrySnow", "Contaminated100mmDrySnow",
   "Contaminated5mmWetSnow", "Contaminated15mmWetSnow",
   "Contaminated30mmWetSnow"}

WaterSlushConditions ==
  {"Contaminated6mmWater", "Contaminated13mmWater", "Contaminated6mmSlush",
   "Contaminated13mmSlush"}

\* getCrosswindLimit with the compacted-snow threshold taken strictly
getCrosswindLimit_StrictThreshold(runwayCondition, oat) ==
  CASE runwayCondition \in {"Dry", "Wet"} -> 35
    [] runwayCondition = "ContaminatedCompactedSnow" ->
         IF oat < -15 THEN 29 ELSE 25
    [] runwayCondition \in SnowConditions -> 25
    [] runwayCondition \in WaterSlushConditions -> 20
    [] OTHER -> Undef

\* oat in whole degrees Celsius
getCrosswindLimit(runwayCondition, oat) ==
  CASE runwayCondition \in {"Dry", "Wet"} -> 35
    [] runwayCondition = "ContaminatedCompactedSnow" ->
         IF oat <= -15 THEN 29 ELSE 25
    [] runwayCondition \in SnowConditions -> 25
    [] runwayCondition \in WaterSlushConditions -> 20
    [] OTHER -> Undef

----------------------------------------------------------------------------
(* Performance envelope: pointInPolygon, checkPerformanceEnvelope,         *)
(* checkLandingEnvelope.  Vertices are <<cg in hundredths of %MAC, kg>>.   *)

A380X_PerformanceEnvelope ==
  [mlw  |-> << <<2900, 270000>>, <<2900, 375000>>, <<2975, 385000>>,
               <<3150, 395000>>, <<4300, 395000>>, <<4300, 270000>> >>,
   mzfw |-> << <<2900, 270000>>, <<2900, 360000>>, <<3150, 365000>>,
               <<4300, 365000>>, <<4300, 270000>>, <<2900, 270000>> >>,
   mtow |-> << <<2900, 270000>>, <<2900, 375000>>, <<3575, 510000>>,
               <<4300, 510000>>, <<4300, 270000>> >>]

A380X_LandingEnvelope ==
  [mlw |-> << <<2900, 270000>>, <<2900, 375000>>, <<2975, 385000>>,
              <<3150, 395000>>, <<4300, 395000>>, <<4300, 270000>> >>]

\* The edge test below without its straddle condition yi > y !== yj > y
edgeIntersects_NoStraddle(x, y, pi, pj) ==
  LET xi == pi[1]  yi == pi[2]
      xj == pj[1]  yj == pj[2]
      d  == yj - yi
      n  == (xj - xi) * (y - yi)
      l  == (x - xi) * d
  IN  IF d > 0
        THEN l < n \/ (l = n /\ x - xi < 0)
        ELSE l > n \/ (l = n /\ x - xi > 0)

\* The edge test of the ray cast:
\*   yi > y !== yj > y  &&  x < ((xj - xi) * (y - yi)) / (yj - yi + 1e-9) + xi
\* The quotient is compared after multiplying by the denominator.  The
\* 1e-9 added to the denominator is smaller than any difference the grid
\* can resolve, so it matters only when the two sides are equal, where it
\* leaves the sign of (x - xi).
edgeIntersects(x, y, pi, pj) ==
  LET xi == pi[1]  yi == pi[2]
      xj == pj[1]  yj == pj[2]
      d  == yj - yi
      n  == (xj - xi) * (y - yi)
      l  == (x - xi) * d
  IN  /\ (yi > y) # (yj > y)
      /\ IF d > 0
           THEN l < n \/ (l = n /\ x - xi < 0)
           ELSE l > n \/ (l = n /\ x - xi > 0)

\* for (i = 0, j = length - 1; i < length; j = i++) if (intersect) inside = !inside
RECURSIVE pointInPolygonFrom(_, _, _, _, _)
pointInPolygonFrom(x, y, polygon, i, inside) ==
  IF i > Len(polygon) THEN inside
  ELSE LET j == IF i = 1 THEN Len(polygon) ELSE i - 1
           hit == edgeIntersects(x, y, polygon[i], polygon[j])
       IN  pointInPolygonFrom(x, y, polygon, i + 1,
                              IF hit THEN ~inside ELSE inside)

pointInPolygon(x, y, polygon) == pointInPolygonFrom(x, y, polygon, 1, FALSE)

EnvelopeCategories ==
  << <<"MTOW", A380X_PerformanceEnvelope.mtow>>,
     <<"MZFW", A380X_PerformanceEnvelope.mzfw>>,
     <<"MLW", A380X_PerformanceEnvelope.mlw>> >>

\* failing keeps the order of the loop over cat
RECURSIVE envelopeFailing(_, _, _)
envelopeFailing(cgH, weightKg, k) ==
  IF k > Len(EnvelopeCategories) THEN <<>>
  ELSE LET label == EnvelopeCategories[k][1]
           poly  == EnvelopeCategories[k][2]
           rest  == envelopeFailing(cgH, weightKg, k + 1)
       IN  IF pointInPolygon(cgH, weightKg, poly) THEN rest
           ELSE <<label>> \o rest

checkPerformanceEnvelope(cgH, weightKg) ==
  LET failing == envelopeFailing(cgH, weightKg, 1)
  IN  [ok |-> Len(failing) = 0, failing |-> failing]

checkLandingEnvelope(cgH, weightKg) ==
  LET ok == pointInPolygon(cgH, weightKg, A380X_LandingEnvelope.mlw)
  IN  [ok |-> ok, failing |-> IF ok THEN <<>> ELSE <<"MLW envelope">>]

----------------------------------------------------------------------------
(* Landing: a380x_landing.ts *)

REFERENCE_WEIGHT_TONNES == 300

dryRunwayLandingData ==
  [Max |-> [
      Full |-> [refDistance |-> 2000, weightCorrectionAbove |-> 100, weightCorrectionBelow |-> -20, speedCorrection |-> 140, altitudeCorrection |-> 80, windCorrection |-> 260, tempCorrection |-> 60, slopeCorrection |-> 40, reverserCorrection |-> 0, overweightProcedureCorrection |-> 1820],
      Conf3 |-> [refDistance |-> 2420, weightCorrectionAbove |-> 100, weightCorrectionBelow |-> -20, speedCorrection |-> 160, altitudeCorrection |-> 100, windCorrection |-> 260, tempCorrection |-> 80, slopeCorrection |-> 60, reverserCorrection |-> -20, overweightProcedureCorrection |-> 2160]],
   Medium |-> [
      Full |-> [refDistance |-> 2660, weightCorrectionAbove |-> 60, weightCorrectionBelow |-> -20, speedCorrection |-> 180, altitudeCorrection |-> 100, windCorrection |-> 280, tempCorrection |-> 80, slopeCorrection |-> 20, reverserCorrection |-> 0, overweightProcedureCorrection |-> 440],
      Conf3 |-> [refDistance |-> 3020, weightCorrectionAbove |-> 80, weightCorrectionBelow |-> -20, speedCorrection |-> 200, altitudeCorrection |-> 100, windCorrection |-> 280, tempCorrection |-> 100, slopeCorrection |-> 20, reverserCorrection |-> 0, overweightProcedureCorrection |-> 460]],
   Low |-> [
      Full |-> [refDistance |-> 3720, weightCorrectionAbove |-> 80, weightCorrectionBelow |-> -20, speedCorrection |-> 260, altitudeCorrection |-> 140, windCorrection |-> 400, tempCorrection |-> 140, slopeCorrection |-> 60, reverserCorrection |-> 0, overweightProcedureCorrection |-> 420],
      Conf3 |-> [refDistance |-> 4320, weightCorrectionAbove |-> 100, weightCorrectionBelow |-> -20, speedCorrection |-> 280, altitudeCorrection |-> 160, windCorrection |-> 440, tempCorrection |-> 140, slopeCorrection |-> 60, reverserCorrection |-> -20, overweightProcedureCorrection |-> 460]]]

goodRunwayLandingData ==
  [Max |-> [
      Full |-> [refDistance |-> 2640, weightCorrectionAbove |-> 100, weightCorrectionBelow |-> -20, speedCorrection |-> 220, altitudeCorrection |-> 140, windCorrection |-> 400, tempCorrection |-> 120, slopeCorrection |-> 100, reverserCorrection |-> -40, overweightProcedureCorrection |-> 1420],
      Conf3 |-> [refDistance |-> 3140, weightCorrectionAbove |-> 120, weightCorrectionBelow |-> -40, speedCorrection |-> 240, altitudeCorrection |-> 160, windCorrection |-> 460, tempCorrection |-> 140, slopeCorrection |-> 120, reverserCorrection |-> -60, overweightProcedureCorrection |-> 1620]],
   Medium |-> [
      Full |-> [refDistance |-> 2760, weightCorrectionAbove |-> 100, weightCorrectionBelow |-> -20, speedCorrection |-> 220, altitudeCorrection |-> 140, windCorrection |-> 400, tempCorrection |-> 120, slopeCorrection |-> 100, reverserCorrection |-> 0, overweightProcedureCorrection |-> 400],
      Conf3 |-> [refDistance |-> 3260, weightCorrectionAbove |-> 100, weightCorrectionBelow |-> -40, speedCorrection |-> 240, altitudeCorrection |-> 160, windCorrection |-> 460, tempCorrection |-> 140, slopeCorrection |-> 120, reverserCorrection |-> -40, overweightProcedureCorrection |-> 580]],
   Low |-> [
      Full |-> [refDistance |-> 3720, weightCorrectionAbove |-> 80, weightCorrectionBelow |-> -20, speedCorrection |-> 260, altitudeCorrection |-> 140, windCorrection |-> 400, tempCorrection |-> 140, slopeCorrection |-> 60, reverserCorrection |-> 0, overweightProcedureCorrection |-> 420],
      Conf3 |-> [refDistance |-> 4320, weightCorrectionAbove |-> 100, weightCorrectionBelow |-> -40, speedCorrection |-> 280, altitudeCorrection |-> 160, windCorrection |-> 440, tempCorrection |-> 140, slopeCorrection |-> 60, reverserCorrection |-> -20, overweightProcedureCorrection |-> 460]]]

goodMediumRunwayLandingData ==
  [Max |-> [
      Full |-> [refDistance |-> 3140, weightCorrectionAbove |-> 80, weightCorrectionBelow |-> -20, speedCorrection |-> 200, altitudeCorrection |-> 120, windCorrection |-> 380, tempCorrection |-> 120, slopeCorrection |-> 140, reverserCorrection |-> -100, overweightProcedureCorrection |-> 1600],
      Conf3 |-> [refDistance |-> 3640, weightCorrectionAbove |-> 100, weightCorrectionBelow |-> -40, speedCorrection |-> 200, altitudeCorrection |-> 140, windCorrection |-> 400, tempCorrection |-> 140, slopeCorrection |-> 160, reverserCorrection |-> -160, overweightProcedureCorrection |-> 1860]],
   Medium |-> [
      Full |-> [refDistance |-> 3240, weightCorrectionAbove |-> 80, weightCorrectionBelow |-> -20, speedCorrection |-> 200, altitudeCorrection |-> 120, windCorrection |-> 380, tempCorrection |-> 120, slopeCorrection |-> 160, reverserCorrection |-> -120, overweightProcedureCorrection |-> 400],
      Conf3 |-> [refDistance |-> 3740, weightCorrectionAbove |-> 80, weightCorrectionBelow |-> -40, speedCorrection |-> 200, altitudeCorrection |-> 140, windCorrection |-> 400, tempCorrection |-> 140, slopeCorrection |-> 180, reverserCorrection |-> -180, overweightProcedureCorrection |-> 560]],
   Low |-> [
      Full |-> [refDistance |-> 3760, weightCorrectionAbove |-> 80, weightCorrectionBelow |-> -20, speedCorrection |-> 260, altitudeCorrection |-> 140, windCorrection |-> 420, tempCorrection |-> 120, slopeCorrection |-> 100, reverserCorrection |-> -20, overweightProcedureCorrection |-> 420],
      Conf3 |-> [refDistance |-> 4340, weightCorrectionAbove |-> 100, weightCorrectionBelow |-> -40, speedCorrection |-> 280, altitudeCorrection |-> 160, windCorrection |-> 440, tempCorrection |-> 160, slopeCorrection |-> 120, reverserCorrection |-> -60, overweightProcedureCorrection |-> 460]]]

mediumRunwayLandingData ==
  [Max |-> [
      Full |-> [refDistance |-> 3520, weightCorrectionAbove |-> 80, weightCorrectionBelow |-> -20, speedCorrection |-> 200, altitudeCorrection |-> 140, windCorrection |-> 440, tempCorrection |-> 120, slopeCorrection |-> 220, reverserCorrection |-> -180, overweightProcedureCorrection |-> 1500],
      Conf3 |-> [refDistance |-> 4100, weightCorrectionAbove |-> 100, weightCorrectionBelow |-> -40, speedCorrection |-> 220, altitudeCorrection |-> 160, windCorrection |-> 480, tempCorrection |-> 140, slopeCorrection |-> 240, reverserCorrection |-> -260, overweightProcedureCorrection |-> 1760]],
   Medium |-> [
      Full |-> [refDistance |-> 3620, weightCorrectionAbove |-> 80, weightCorrectionBelow |-> -20, speedCorrection |-> 220, altitudeCorrection |-> 140, windCorrection |-> 460, tempCorrection |-> 120, slopeCorrection |-> 220, reverserCorrection |-> -200, overweightProcedureCorrection |-> 400],
      Conf3 |-> [refDistance |-> 4200, weightCorrectionAbove |-> 100, weightCorrectionBelow |-> -40, speedCorrection |-> 220, altitudeCorrection |-> 160, windCorrection |-> 480, tempCorrection |-> 140, slopeCorrection |-> 260, reverserCorrection |-> -280, overweightProcedureCorrection |-> 600]],
   Low |-> [
      Full |-> [refDistance |-> 3920, weightCorrectionAbove |-> 80, weightCorrectionBelow |-> -20, speedCorrection |-> 260, altitudeCorrection |-> 140, windCorrection |-> 480, tempCorrection |-> 140, slopeCorrection |-> 200, reverserCorrection |-> -80, overweightProcedureCorrection |-> 460],
      Conf3 |-> [refDistance |-> 4540, weightCorrectionAbove |-> 100, weightCorrectionBelow |-> -40, speedCorrection |-> 280, altitudeCorrection |-> 160, windCorrection |-> 500, tempCorrection |-> 160, slopeCorrection |-> 220, reverserCorrection |-> -140, overweightProcedureCorrection |-> 520]]]

mediumPoorRunwayLandingData ==
  [Max |-> [
      Full |-> [refDistance |-> 3860, weightCorrectionAbove |-> 140, weightCorrectionBelow |-> -20, speedCorrection |-> 340, altitudeCorrection |-> 220, windCorrection |-> 700, tempCorrection |-> 200, slopeCorrection |-> 300, reverserCorrection |-> -220, overweightProcedureCorrection |-> 960],
      Conf3 |-> [refDistance |-> 4760, weightCorrectionAbove |-> 160, weightCorrectionBelow |-> -60, speedCorrection |-> 340, altitudeCorrection |-> 280, windCorrection |-> 820, tempCorrection |-> 240, slopeCorrection |-> 400, reverserCorrection |-> -300, overweightProcedureCorrection |-> 1160]],
   Medium |-> [
      Full |-> [refDistance |-> 3920, weightCorrectionAbove |-> 140, weightCorrectionBelow |-> -20, speedCorrection |-> 320, altitudeCorrection |-> 220, windCorrection |-> 720, tempCorrection |-> 180, slopeCorrection |-> 300, reverserCorrection |-> -220, overweightProcedureCorrection |-> 460],
      Conf3 |-> [refDistance |-> 4800, weightCorrectionAbove |-> 160, weightCorrectionBelow |-> -60, speedCorrection |-> 340, altitudeCorrection |-> 280, windCorrection |-> 820, tempCorrection |-> 240, slopeCorrection |-> 400, reverserCorrection |-> -320, overweightProcedureCorrection |-> 620]],
   Low |-> [
      Full |-> [refDistance |-> 4000, weightCorrectionAbove |-> 140, weightCorrectionBelow |-> -20, speedCorrection |-> 320, altitudeCorrection |-> 240, windCorrection |-> 720, tempCorrection |-> 180, slopeCorrection |-> 300, reverserCorrection |-> -80, overweightProcedureCorrection |-> 440],
      Conf3 |-> [refDistance |-> 4860, weightCorrectionAbove |-> 160, weightCorrectionBelow |-> -60, speedCorrection |-> 360, altitudeCorrection |-> 280, windCorrection |-> 800, tempCorrection |-> 260, slopeCorrection |-> 420, reverserCorrection |-> -160, overweightProcedureCorrection |-> 580]]]

poorRunwayLandingData ==
  [Max |-> [
      Full |-> [refDistance |-> 5520, weightCorrectionAbove |-> 120, weightCorrectionBelow |-> -40, speedCorrection |-> 280, altitudeCorrection |-> 220, windCorrection |-> 860, tempCorrection |-> 220, slopeCorrection |-> 920, reverserCorrection |-> -740, overweightProcedureCorrection |-> 1100],
      Conf3 |-> [refDistance |-> 6500, weightCorrectionAbove |-> 140, weightCorrectionBelow |-> -60, speedCorrection |-> 300, altitudeCorrection |-> 260, windCorrection |-> 940, tempCorrection |-> 260, slopeCorrection |-> 1100, reverserCorrection |-> -980, overweightProcedureCorrection |-> 1320]],
   Medium |-> [
      Full |-> [refDistance |-> 5580, weightCorrectionAbove |-> 120, weightCorrectionBelow |-> -40, speedCorrection |-> 260, altitudeCorrection |-> 220, windCorrection |-> 880, tempCorrection |-> 200, slopeCorrection |-> 940, reverserCorrection |-> -760, overweightProcedureCorrection |-> 460],
      Conf3 |-> [refDistance |-> 6560, weightCorrectionAbove |-> 140, weightCorrectionBelow |-> -60, speedCorrection |-> 300, altitudeCorrection |-> 260, windCorrection |-> 940, tempCorrection |-> 240, slopeCorrection |-> 1120, reverserCorrection |-> -980, overweightProcedureCorrection |-> 620]],
   Low |-> [
      Full |-> [refDistance |-> 5660, weightCorrectionAbove |-> 120, weightCorrectionBelow |-> -40, speedCorrection |-> 280, altitudeCorrection |-> 220, windCorrection |-> 880, tempCorrection |-> 220, slopeCorrection |-> 940, reverserCorrection |-> -760, overweightProcedureCorrection |-> 440],
      Conf3 |-> [refDistance |-> 6660, weightCorrectionAbove |-> 140, weightCorrectionBelow |-> -60, speedCorrection |-> 280, altitudeCorrection |-> 260, windCorrection |-> 940, tempCorrection |-> 240, slopeCorrection |-> 1120, reverserCorrection |-> -1000, overweightProcedureCorrection |-> 580]]]


runwayConditionLandingData ==
  [Dry |-> dryRunwayLandingData,
   Good |-> goodRunwayLandingData,
   GoodMedium |-> goodMediumRunwayLandingData,
   Medium |-> mediumRunwayLandingData,
   MediumPoor |-> mediumPoorRunwayLandingData,
   Poor |-> poorRunwayLandingData]

LandingRunwayConditions == DOMAIN runwayConditionLandingData
AutobrakeMode == {"Max", "Medium", "Low"}
LandingFlapsConfig == {"Full", "Conf3"}

\* SAFETY_MARGIN = 1.15, as a number of hundredths
SAFETY_MARGIN == 115

CONF_FULL_VLS == <<140, 150, 160, 170, 180, 190, 200, 210, 220>>
CONF3_VLS == <<145, 155, 165, 175, 185, 195, 205, 215, 225>>

\* mass in kg (the source takes tonnes); result in thousandths of a knot.
\* weightIncrement = (512 - 270) / 8 tonnes.  Sequences are 1-based, the
\* source's index k is position k + 1.
getInterpolatedVlsTableValue(massKg, vlsSpeedTable) ==
  LET minWeight == 270000
      maxWeight == 512000
      n == Len(vlsSpeedTable)
      weightIncrement == (maxWeight - minWeight) \div (n - 1)
      index == Max2(0, Min2(n - 1, CeilDiv(massKg - minWeight, weightIncrement)))
  IN  IF index = 0 THEN vlsSpeedTable[1] * 1000
      ELSE IF index >= n - 1 THEN vlsSpeedTable[n] * 1000
      ELSE LET lower == vlsSpeedTable[index]
               upper == vlsSpeedTable[index + 1]
               rem == (massKg - minWeight) % weightIncrement
           IN  lower * 1000 + ((upper - lower) * 1000 * rem) \div weightIncrement

\* Math.cos(Math.PI - radians) * 1000 for the relative wind directions the
\* model draws (degrees); a cosine of magnitude below 1e-16 is 0.
cosPiMinus(deg) ==
  CASE deg = 0 -> -1000
    [] deg = 90 -> 0
    [] deg = 120 -> 500
    [] deg = 180 -> 1000

\* result in thousandths of a knot
getTailWind(windDirection, windMagnitude, runwayHeading) ==
  cosPiMinus(windDirection - runwayHeading) * windMagnitude

\* 145442.15 * (1 - (pressure / 1013.25) ** 0.190263), in feet rounded to
\* the nearest foot, for the pressures the model draws (hundredths of hPa)
getPressureAltitude(pressure) ==
  CASE pressure = 101325 -> 0
    [] pressure = 100000 -> 364
    [] pressure = 98000 -> 920
    [] pressure = 103000 -> -454

\* 15 - 0.0019812 * pressureAltitude, in hundredths of a degree
getISATemperature(pressureAltitude) ==
  1500 - (MulDiv(pressureAltitude, 19812, 1000) \div 100)

\* The sum of calculateRequiredLandingDistance before Math.round, in
\* hundredths of a metre.  a is the argument record of
\* calculateLandingDistances: weight kg, approachSpeed kt, windMagnitude kt,
\* altitude ft, temperature in hundredths of a degree, slope in hundredths
\* of a percent, pressure in hundredths of hPa.
requiredLandingDistanceSum(a, autobrakeMode) ==
  LET pressureAltitude == a.altitude + getPressureAltitude(a.pressure)
      isaTemperature == getISATemperature(pressureAltitude)
      targetApproachSpeed ==
        IF a.flaps = "Full"
          THEN getInterpolatedVlsTableValue(a.weight, CONF_FULL_VLS)
          ELSE getInterpolatedVlsTableValue(a.weight, CONF3_VLS)
      landingData == runwayConditionLandingData[a.runwayCondition][autobrakeMode][a.flaps]
      tw == getTailWind(a.windDirection, a.windMagnitude, a.runwayHeading)
      tailWind == IF tw < 0 THEN 0 ELSE tw
      weightDifference == a.weight - REFERENCE_WEIGHT_TONNES * 1000
      weightCorrection ==
        IF weightDifference < 0
          THEN MulDiv(Abs(weightDifference), landingData.weightCorrectionBelow, 10)
          ELSE MulDiv(weightDifference, landingData.weightCorrectionAbove, 10)
      sd == a.approachSpeed * 1000 - targetApproachSpeed
      speedDifference == IF sd < 0 THEN 0 ELSE sd
      speedCorrection == MulDiv(speedDifference, landingData.speedCorrection, 50)
      windCorrection == MulDiv(tailWind, landingData.windCorrection, 50)
      reverserCorrection ==
        IF a.reverseThrust THEN landingData.reverserCorrection * 2 * 100 ELSE 0
      altitudeCorrection ==
        IF pressureAltitude > 0
          THEN MulDiv(pressureAltitude, landingData.altitudeCorrection, 10)
          ELSE 0
      slopeCorrection ==
        IF a.slope < 0 THEN Abs(a.slope) * landingData.slopeCorrection ELSE 0
      temperatureCorrection ==
        IF a.temperature > isaTemperature
          THEN MulDiv(a.temperature - isaTemperature, landingData.tempCorrection, 10)
          ELSE 0
      overweightProcCorrection ==
        IF a.overweightProcedure
          THEN landingData.overweightProcedureCorrection * 100 ELSE 0
      autolandCorrection ==
        IF a.autoland THEN (IF a.flaps = "Full" THEN 560 ELSE 500) * 100 ELSE 0
  IN  landingData.refDistance * 100 + weightCorrection + speedCorrection
        + windCorrection + reverserCorrection + altitudeCorrection
        + slopeCorrection + temperatureCorrection + overweightProcCorrection
        + autolandCorrection

\* (the same with Math.floor in place of Math.round)
calculateRequiredLandingDistance_Floor(a, autobrakeMode) ==
  requiredLandingDistanceSum(a, autobrakeMode) \div 100

\* return Math.round(requiredLandingDistance), in metres
calculateRequiredLandingDistance(a, autobrakeMode) ==
  RoundC(requiredLandingDistanceSum(a, autobrakeMode))

\* SAFETY_MARGIN * calculateRequiredLandingDistance(...), in hundredths of a
\* metre
calculateLandingDistances(a) ==
  [maxAutobrakeDist |-> SAFETY_MARGIN * calculateRequiredLandingDistance(a, "Max"),
   mediumAutobrakeDist |-> SAFETY_MARGIN * calculateRequiredLandingDistance(a, "Medium"),
   lowAutobrakeDist |-> SAFETY_MARGIN * calculateRequiredLandingDistance(a, "Low")]


----------------------------------------------------------------------------
(* Takeoff: A380842TakeoffPerformanceCalculator.                           *)
(*                                                                         *)
(* The class is present twice: complete in a380x_takeoff.ts, and in        *)
(* part_001 with its own tables, wet and contaminated adjustments and a    *)
(* clamped MTOW.  The model carries both; the receiver of a call is the    *)
(* field "calculator" of args.  A definition by the name of the source is  *)
(* shared when the two bodies agree; where they differ the part_001 table  *)
(* carries the suffix _part001 and the operator takes the calculator.      *)

Calculators == {"a380x_takeoff", "part_001"}

\* a property of a result that was never assigned, or assigned undefined
Has(r, f) == f \in DOMAIN r

\* object spread / property assignment: the fields of g over those of f
Merge(f, g) == g @@ f

\* the fields of r other than those named in s
Without(r, s) == [k \in DOMAIN r \ s |-> r[k]]

\* NaN-propagating arithmetic and comparisons of IEEE doubles
IsNaN(x) == x = NaN
NSub3(a, b, c) == IF IsNaN(a) \/ IsNaN(b) \/ IsNaN(c) THEN NaN ELSE a - b - c
NMin(a, b) == IF IsNaN(a) \/ IsNaN(b) THEN NaN ELSE Min2(a, b)
NLt(a, b) == ~IsNaN(a) /\ ~IsNaN(b) /\ a < b
NLe(a, b) == ~IsNaN(a) /\ ~IsNaN(b) /\ a <= b
NGt(a, b) == ~IsNaN(a) /\ ~IsNaN(b) /\ a > b
NGe(a, b) == ~IsNaN(a) /\ ~IsNaN(b) /\ a >= b

\* LerpLookupTable.get over breakpoints <<key, value>> sorted by key: the end
\* values outside the keys, linear between two neighbours
RECURSIVE lerpFrom(_, _, _)
lerpFrom(table, i, x) ==
  IF x <= table[i][1] THEN table[i][2]
  ELSE IF i = Len(table) THEN table[i][2]
  ELSE IF x >= table[i + 1][1] THEN lerpFrom(table, i + 1, x)
  ELSE table[i][2]
         + MulDiv(table[i + 1][2] - table[i][2], x - table[i][1],
                  table[i + 1][1] - table[i][1])

lerp1(table, x) == lerpFrom(table, 1, x)

\* LerpVectorLookupTable.get: the same, component by component
lerpVec(table, x) ==
  [c \in DOMAIN table[1][2] |->
     lerp1([i \in DOMAIN table |-> <<table[i][1], table[i][2][c]>>], x)]

\* a lookup that hands back `out` as it was, without storing into it
vectorGet_Stale(out, table, x) == out

\* table.get(out, x) as the caller sees it: the lookup stores every component
\* of the interpolated vector into `out` and returns `out`, so the vector read
\* through the returned reference holds nothing of what `out` held before
vectorGet(out, table, x) == lerpVec(table, x)

\* <<elevation ft, Tref in hundredths of a degree>>
tRefTable ==
  << <<-2000, 4800>>, <<0, 4400>>, <<500, 4300>>, <<1000, 4200>>,
     <<2000, 4000>>, <<3000, 3640>>, <<3479, 3500>>, <<8348, 1640>>,
     <<9200, 1350>> >>

\* <<pressure altitude ft, Tmax in hundredths of a degree>>
tMaxTable ==
  << <<-2000, 5500>>, <<0, 5500>>, <<9200, 3800>> >>

\* <<runway length in tenths of a metre, limit weight kg>> (a380x_takeoff.ts)
runwayPerfLimitConf1 ==
  << <<20000, 300000>>, <<30000, 400000>>, <<35000, 450000>>,
     <<40000, 500000>>, <<45000, 512000>> >>

\* <<runway length in tenths of a metre, limit weight kg>> (part_001)
runwayPerfLimitConf1_part001 ==
  << <<10000, 349600>>, <<12190, 384264>>, <<16040, 445176>>,
     <<19590, 490536>>, <<21340, 512000>>, <<22390, 512000>>,
     <<24590, 512000>>, <<25590, 512000>>, <<27090, 512000>>,
     <<29180, 512000>>, <<30000, 512000>>, <<31800, 512000>>,
     <<38000, 512000>>, <<50000, 512000>> >>

\* <<runway length in tenths of a metre, limit weight kg>> (a380x_takeoff.ts)
runwayPerfLimitConf2 ==
  << <<20000, 300000>>, <<30000, 400000>>, <<35000, 450000>>,
     <<40000, 500000>>, <<45000, 512000>> >>

\* <<runway length in tenths of a metre, limit weight kg>> (part_001)
runwayPerfLimitConf2_part001 ==
  << <<10000, 353160>>, <<12190, 392040>>, <<16040, 460080>>,
     <<19590, 508032>>, <<21340, 512000>>, <<22390, 512000>>,
     <<24590, 512000>>, <<27090, 512000>>, <<28790, 512000>>,
     <<29870, 512000>>, <<36000, 512000>>, <<38000, 512000>>,
     <<39000, 512000>>, <<50000, 512000>> >>

\* <<runway length in tenths of a metre, limit weight kg>> (a380x_takeoff.ts)
runwayPerfLimitConf3 ==
  << <<20000, 300000>>, <<30000, 400000>>, <<35000, 450000>>,
     <<40000, 500000>>, <<45000, 512000>> >>

\* <<runway length in tenths of a metre, limit weight kg>> (part_001)
runwayPerfLimitConf3_part001 ==
  << <<10000, 344088>>, <<12190, 390096>>, <<16040, 470448>>,
     <<19590, 512000>>, <<21340, 512000>>, <<22390, 512000>>,
     <<24590, 512000>>, <<27090, 512000>>, <<28390, 512000>>,
     <<31800, 512000>>, <<38000, 512000>>, <<50000, 512000>> >>

\* <<TOW kg, <<lower, upper>> CG limit in hundredths of %MAC>> (a380x_takeoff.ts)
takeoffCgLimits ==
  << <<300000, <<2300, 4300>>>>, <<400000, <<2300, 4300>>>>,
     <<500000, <<2300, 4300>>>>, <<512000, <<2300, 4300>>>> >>

\* <<TOW kg, <<lower, upper>> CG limit in hundredths of %MAC>> (part_001)
takeoffCgLimits_part001 ==
  << <<270000, <<2900, 4300>>>>, <<375000, <<2900, 4300>>>>,
     <<510000, <<2900, 4300>>>>, <<512000, <<2900, 4300>>>> >>

----------------------------------------------------------------------------
(* Constants and the environment resolver *)

tMaxFlexDisa == 5900
structuralMtow == 512000
maxPressureAlt == 9200
oew == 300007
maxHeadwind == 45
maxTailwind == 15

LineupAngle == {0, 90, 180}

\* lineUpDistances[lineupAngle] ?? 0, in tenths of a metre
lineUpDistances(calc, lineupAngle) ==
  IF calc = "a380x_takeoff"
    THEN CASE lineupAngle = 0 -> 0
           [] lineupAngle = 90 -> 205
           [] lineupAngle = 180 -> 410
           [] OTHER -> 0
    ELSE CASE lineupAngle = 0 -> 0
           [] lineupAngle = 90 -> 320
           [] lineupAngle = 180 -> 640
           [] OTHER -> 0

TakeoffAntiIceSetting == {"Off", "Engine", "EngineWing"}

LimitingFactor == <<"Runway", "SecondSegment", "BrakeEnergy", "Vmcg">>

TakeoffPerfomanceError ==
  {"None", "InvalidData", "StructuralMtow", "MaximumPressureAlt",
   "MaximumTemperature", "OperatingEmptyWeight", "CgOutOfLimits",
   "MaximumTailwind", "MaximumRunwaySlope", "TooHeavy", "TooLight",
   "VmcgVmcaLimits", "MaximumTireSpeed"}

\* 15 - elevation * 0.0019812, in hundredths of a degree
calculateIsaTemp(elevation) == 1500 - MulDiv(elevation, 19812, 100000)

calculateTref(elevation) == lerp1(tRefTable, elevation)

calculateTmax(pressureAlt) == lerp1(tMaxTable, pressureAlt)

calculateTflexMax(isa) == isa + tMaxFlexDisa

\* 145442.15 * (1 - (qnh / 1013.25) ^ 0.190263) in whole feet, for the
\* altimeter settings the calls are made with (qnh in hundredths of a hPa)
qnhAltitudeOffset(qnh) ==
  CASE qnh = 101325 -> 0
    [] qnh = 100000 -> 364
    [] qnh = 98000 -> 920
    [] qnh = 103000 -> -454
    [] qnh = 140000 -> -9228

calculatePressureAltitude(elevation, qnh) == elevation + qnhAltitudeOffset(qnh)

isContaminated(runwayCondition) == runwayCondition \notin {"Dry", "Wet"}

\* cg >= cgLimits[0] && cg <= cgLimits[1], cg in hundredths of %MAC
cgWithin(cgLimits, cg) == cg >= cgLimits[1] /\ cg <= cgLimits[2]

isCgWithinLimits(calc, cg, tow) ==
  cgWithin(vectorGet(vec2Cache[calc],
                     IF calc = "a380x_takeoff" THEN takeoffCgLimits
                     ELSE takeoffCgLimits_part001, tow),
           cg)

\* checkInputs without the comparison of tow against oew
checkInputs_NoOewCheck(calc, inputs, params) ==
  IF inputs.conf \notin {1, 2, 3} THEN "InvalidData"
  ELSE IF inputs.tow > structuralMtow THEN "StructuralMtow"
  ELSE IF params.pressureAlt > maxPressureAlt THEN "MaximumPressureAlt"
  ELSE IF inputs.oat > params.tMax THEN "MaximumTemperature"
  ELSE IF Has(inputs, "cg") /\ ~isCgWithinLimits(calc, inputs.cg, inputs.tow)
    THEN "CgOutOfLimits"
  ELSE IF inputs.wind < -maxTailwind THEN "MaximumTailwind"
  ELSE IF Abs(inputs.slope) > 200 THEN "MaximumRunwaySlope"
  ELSE "None"

\* checkInputs with the weight floor tested before the temperature
checkInputs_OewBeforeTemperature(calc, inputs, params) ==
  IF inputs.conf \notin {1, 2, 3} THEN "InvalidData"
  ELSE IF inputs.tow > structuralMtow THEN "StructuralMtow"
  ELSE IF params.pressureAlt > maxPressureAlt THEN "MaximumPressureAlt"
  ELSE IF inputs.tow < oew THEN "OperatingEmptyWeight"
  ELSE IF inputs.oat > params.tMax THEN "MaximumTemperature"
  ELSE IF Has(inputs, "cg") /\ ~isCgWithinLimits(calc, inputs.cg, inputs.tow)
    THEN "CgOutOfLimits"
  ELSE IF inputs.wind < -maxTailwind THEN "MaximumTailwind"
  ELSE IF Abs(inputs.slope) > 200 THEN "MaximumRunwaySlope"
  ELSE "None"

\* slope in hundredths of a percent, oat and tMax in hundredths of a degree
checkInputs(calc, inputs, params) ==
  IF inputs.conf \notin {1, 2, 3} THEN "InvalidData"
  ELSE IF inputs.tow > structuralMtow THEN "StructuralMtow"
  ELSE IF params.pressureAlt > maxPressureAlt THEN "MaximumPressureAlt"
  ELSE IF inputs.oat > params.tMax THEN "MaximumTemperature"
  ELSE IF inputs.tow < oew THEN "OperatingEmptyWeight"
  ELSE IF Has(inputs, "cg") /\ ~isCgWithinLimits(calc, inputs.cg, inputs.tow)
    THEN "CgOutOfLimits"
  ELSE IF inputs.wind < -maxTailwind THEN "MaximumTailwind"
  ELSE IF Abs(inputs.slope) > 200 THEN "MaximumRunwaySlope"
  ELSE "None"

\* result.params as calculateTakeoffPerformance builds it from its arguments
takeoffParams(calc, inputs) ==
  LET isaTemp == calculateIsaTemp(inputs.elevation)
      pressureAlt == calculatePressureAltitude(inputs.elevation, inputs.qnh)
  IN  [adjustedTora |-> inputs.tora * 10 - lineUpDistances(calc, inputs.lineupAngle),
       pressureAlt |-> pressureAlt,
       isaTemp |-> isaTemp,
       tRef |-> calculateTref(inputs.elevation),
       tMax |-> calculateTmax(pressureAlt),
       tFlexMax |-> calculateTflexMax(isaTemp),
       headwind |-> Min2(maxHeadwind, inputs.wind)]

\* runwaySlopeFactor, indexed by conf; entries scaled by 1e6
runwaySlopeFactor ==
  << 840,
     960,
     1100 >>

\* runwayPressureAltFactor, indexed by conf; entries scaled by 1e10, 1e6
runwayPressureAltFactor ==
  << <<343, 1192>>,
     <<115, 1216>>,
     <<-46, 1245>> >>

\* runwayTemperatureFactor, indexed by conf; entries scaled by 1e7, 1e6, 1e7, 1e6, 1e7, 1e6
runwayTemperatureFactor ==
  << <<100, 95175, 2070, 40242, 2400, 66189>>,
     <<-100, 131948, 1550, 162938, 2250, 150363>>,
     <<-438, 198845, 1880, 145470, 2000, 232529>> >>

\* runwayHeadWindFactor, indexed by conf; entries scaled by 1e7, 1e6, 1e6, 1e6
runwayHeadWindFactor ==
  << <<290, -233075, 2420, 3772>>,
     <<510, -277863, 1800, 3366>>,
     <<1150, -395100, 2357, 2125>> >>

\* runwayTailWindFactor, indexed by conf; entries scaled by 1e7, 1e6, 1e6, 1e6
runwayTailWindFactor ==
  << <<650, -684701, 4980, 80800>>,
     <<1980, -1017000, 7110, 9000>>,
     <<2710, -1115060, 7800, 8750>> >>

\* secondSegmentBaseFactor, indexed by conf; entries scaled by 1e6, 1e4
secondSegmentBaseFactor ==
  << <<3910, 753660>>,
     <<5465, 722270>>,
     <<4950, 722560>> >>

\* secondSegmentSlopeFactor, indexed by conf; entries scaled by 1e6
secondSegmentSlopeFactor ==
  << 419,
     641,
     459 >>

\* secondSegmentPressureAltFactor, indexed by conf; entries scaled by 1e10, 1e6
secondSegmentPressureAltFactor ==
  << <<-650, 1769>>,
     <<1050, 550>>,
     <<748, 506>> >>

\* secondSegmentTemperatureFactor, indexed by conf; entries scaled by 1e7, 1e6, 1e7, 1e6, 1e7, 1e6
secondSegmentTemperatureFactor ==
  << <<250, 1000, 1550, 211445, 710, 556741>>,
     <<121, 42153, 1256, 325925, 820, 546259>>,
     <<-294, 139030, 693, 480536, 1330, 480536>> >>

\* secondSegmentHeadWindFactor, indexed by conf; entries scaled by 1e7, 1e6, 1e6, 1e6
secondSegmentHeadWindFactor ==
  << <<190, -130520, 814, 145>>,
     <<454, -205850, 417, 1778>>,
     <<850, -302090, 1189, 3900>> >>

\* secondSegmentTailWindFactor, indexed by conf; entries scaled by 1e7, 1e6, 1e6, 1e6
secondSegmentTailWindFactor ==
  << <<1040, -705693, 9000, 6480>>,
     <<1540, -805200, 9000, 2444>>,
     <<540, -462000, 8750, 6607>> >>

\* brakeEnergyBaseFactor, indexed by conf; entries scaled by 1e6, 1e4
brakeEnergyBaseFactor ==
  << <<5030, 725240>>,
     <<6720, 682800>>,
     <<1280, 839510>> >>

\* brakeEnergySlopeFactor, indexed by conf; entries scaled by 1e6
brakeEnergySlopeFactor ==
  << 45,
     68,
     45 >>

\* brakeEnergyPressureAltFactor, indexed by conf; entries scaled by 1e10, 1e6
brakeEnergyPressureAltFactor ==
  << <<550, 968>>,
     <<1170, 595>>,
     <<465, 658>> >>

\* brakeEnergyTemperatureFactor, indexed by conf; entries scaled by 1e6, 1e6
brakeEnergyTemperatureFactor ==
  << <<60000, 540000>>,
     <<58000, 545000>>,
     <<46420, 600000>> >>

\* brakeEnergyHeadWindFactor, indexed by conf; entries scaled by 1e7, 1e6, 1e6, 1e6
brakeEnergyHeadWindFactor ==
  << <<311, -176900, 1125, 0>>,
     <<316, -179900, 1182, 0>>,
     <<147, -92800, 1111, 0>> >>

\* brakeEnergyTailWindFactor, indexed by conf; entries scaled by 1e7, 1e6, 1e6, 1e6
brakeEnergyTailWindFactor ==
  << <<1170, -802400, 11788, 6667>>,
     <<1570, -849000, 6682, 6667>>,
     <<1300, -694600, 6833, 6667>> >>

\* vmcgBaseFactor, indexed by conf; entries scaled by 1e6, 1e4
vmcgBaseFactor ==
  << <<64400, -195260>>,
     <<82005, -392700>>,
     <<70400, -256868>> >>

\* vmcgSlopeFactor, indexed by conf; entries scaled by 1e6
vmcgSlopeFactor ==
  << 840,
     1054,
     1068 >>

\* vmcgPressureAltFactor, indexed by conf; entries scaled by 1e10, 1e6
vmcgPressureAltFactor ==
  << <<-8350, 5890>>,
     <<-7580, 7030>>,
     <<1950, 2660>> >>

\* vmcgTemperatureFactor, indexed by conf; entries scaled by 1e7, 1e6, 1e7, 1e6, 1e7, 1e6
vmcgTemperatureFactor ==
  << <<-13300, 2104000, 6990, -128144, -7180, 1810300>>,
     <<-9700, 1613000, 2420, 462005, -5470, 1603000>>,
     <<-9230, 1608700, 6100, 2239, -3350, 1271600>> >>

\* vmcgHeadWindFactor, indexed by conf; entries scaled by 1e7, 1e6, 1e7, 1e6, 1e7, 1e6, 1e7, 1e6
vmcgHeadWindFactor ==
  << <<11980, -1805390, 970, -151210, -2550, 337391, 660, -79718>>,
     <<6970, -1174730, 310, -57504, -1840, 246185, 120, 21600>>,
     <<23000, -3468000, -370, 33946, -1560, 213953, -7570, 1094000>> >>

\* vmcgTailWindFactor, indexed by conf; entries scaled by 1e7, 1e6, 1e7, 1e6, 1e6, 1e6
vmcgTailWindFactor ==
  << <<21800, -5489000, -1060, 145473, 31431, -35600>>,
     <<18920, -5646000, -590, 79539, 9948, -10763>>,
     <<6130, -3165000, -220, 20622, 49286, -39600>> >>

\* cgFactors, indexed by conf; entries scaled by 1e6, 1e3
cgFactors ==
  << <<-41448, 3357>>,
     <<-32770, 2686>>,
     <<-24900, 2086>> >>

----------------------------------------------------------------------------
(* Temperature and wind corrections, kg.  Lengths in tenths of a metre,    *)
(* temperatures in hundredths of a degree, wind in knots.                  *)

\* 1000 * (length * f7 / 1e7 + f6 / 1e6) * dT
lengthTempTerm(length, f7, f6, dT) ==
  MulDiv(MulDiv(length, f7, 100) + f6, dT, 100000)

\* 1000 * (length * f7 / 1e7 + f6 / 1e6) * wind * dT
lengthWindTempTerm(length, f7, f6, wind, dT) ==
  MulDiv(MulDiv(MulDiv(length, f7, 100) + f6, dT, 1000), wind, 100)

\* the three-segment temperature correction shared by the runway, second
\* segment and Vmcg kernels, which differ in the length they enter with
tempDeltaSegments(tempFactors, length, temp, tRef, tMax, isaTemp) ==
  lengthTempTerm(length, tempFactors[1], tempFactors[2], Min2(temp, tRef) - isaTemp)
    + (IF temp > tRef
         THEN lengthTempTerm(length, tempFactors[3], tempFactors[4], Min2(temp, tMax) - tRef)
         ELSE 0)
    + (IF temp > tMax
         THEN lengthTempTerm(length, tempFactors[5], tempFactors[6], temp - tMax)
         ELSE 0)

calculateRunwayTempDelta(temp, conf, tRef, tMax, tFlexMax, runwayLength, pressureAlt, isaTemp) ==
  IF temp > tFlexMax THEN NaN
  ELSE tempDeltaSegments(runwayTemperatureFactor[conf],
                         runwayLength - MulDiv(pressureAlt, 10, 12),
                         temp, tRef, tMax, isaTemp)

calculateSecondSegmentTempDelta(temp, conf, tRef, tMax, tFlexMax, runwayLength, pressureAlt, isaTemp) ==
  IF temp > tFlexMax THEN NaN
  ELSE tempDeltaSegments(secondSegmentTemperatureFactor[conf],
                         runwayLength - MulDiv(pressureAlt, 10, 5),
                         temp, tRef, tMax, isaTemp)

calculateBrakeEnergyTempDelta(temp, conf, tRef, tMax, tFlexMax, runwayLength, pressureAlt, isaTemp) ==
  IF temp > tFlexMax THEN NaN
  ELSE LET tempFactors == brakeEnergyTemperatureFactor[conf]
       IN  MulDiv(tempFactors[1], Min2(temp, tRef) - isaTemp, 100000)
             + (IF temp > tRef
                  THEN MulDiv(tempFactors[2], Min2(temp, tMax) - tRef, 100000)
                  ELSE 0)

calculateVmcgTempDelta(temp, conf, tRef, tMax, tFlexMax, runwayLength, pressureAlt, isaTemp) ==
  IF temp > tFlexMax THEN NaN
  ELSE tempDeltaSegments(vmcgTemperatureFactor[conf], runwayLength,
                         temp, tRef, tMax, isaTemp)

\* the correction as computed, whatever its sign
windDeltaOrZero_Kept(weightDelta, wind) == weightDelta

\* a correction of the sign of the wind is dropped
windDeltaOrZero(weightDelta, wind) ==
  IF Sign(weightDelta) = Sign(wind) THEN 0 ELSE weightDelta

\* the body shared by the runway, second segment and brake energy kernels
windDeltaSegments(windFactors, temp, tRef, tMax, runwayLength, wind) ==
  windDeltaOrZero(
    MulDiv(MulDiv(runwayLength, windFactors[1], 100) + windFactors[2], wind, 1000)
      + (IF temp > tRef
           THEN MulDiv(windFactors[3] * wind, Min2(temp, tMax) - tRef, 100000)
           ELSE 0)
      + (IF temp > tMax
           THEN MulDiv(windFactors[4] * wind, temp - tMax, 100000)
           ELSE 0),
    wind)

calculateRunwayWindDelta(temp, conf, isaTemp, tRef, tMax, tFlexMax, runwayLength, wind) ==
  IF temp > tFlexMax THEN NaN
  ELSE windDeltaSegments(IF wind >= 0 THEN runwayHeadWindFactor[conf]
                         ELSE runwayTailWindFactor[conf],
                         temp, tRef, tMax, runwayLength, wind)

calculateSecondSegmentWindDelta(temp, conf, isaTemp, tRef, tMax, tFlexMax, runwayLength, wind) ==
  IF temp > tFlexMax THEN NaN
  ELSE windDeltaSegments(IF wind >= 0 THEN secondSegmentHeadWindFactor[conf]
                         ELSE secondSegmentTailWindFactor[conf],
                         temp, tRef, tMax, runwayLength, wind)

calculateBrakeEnergyWindDelta(temp, conf, isaTemp, tRef, tMax, tFlexMax, runwayLength, wind) ==
  IF temp > tFlexMax THEN NaN
  ELSE windDeltaSegments(IF wind >= 0 THEN brakeEnergyHeadWindFactor[conf]
                         ELSE brakeEnergyTailWindFactor[conf],
                         temp, tRef, tMax, runwayLength, wind)

calculateVmcgWindDelta(temp, conf, isaTemp, tRef, tMax, tFlexMax, runwayLength, wind) ==
  IF temp > tFlexMax THEN NaN
  ELSE IF wind >= 0
    THEN LET windFactors == vmcgHeadWindFactor[conf]
         IN  windDeltaOrZero(
               MulDiv(MulDiv(runwayLength, windFactors[1], 100) + windFactors[2], wind, 1000)
                 + (IF temp > isaTemp
                      THEN lengthWindTempTerm(runwayLength, windFactors[3], windFactors[4],
                                              wind, Min2(temp, tRef) - isaTemp)
                      ELSE 0)
                 + (IF temp > tRef
                      THEN lengthWindTempTerm(runwayLength, windFactors[5], windFactors[6],
                                              wind, Min2(temp, tMax) - tRef)
                      ELSE 0)
                 + (IF temp >= tMax
                      THEN lengthWindTempTerm(runwayLength, windFactors[7], windFactors[8],
                                              wind, temp - tMax)
                      ELSE 0),
               wind)
    ELSE LET windFactors == vmcgTailWindFactor[conf]
         IN  windDeltaOrZero(
               MulDiv(MulDiv(runwayLength, windFactors[1], 100) + windFactors[2], wind, 1000)
                 + (IF temp > isaTemp
                      THEN lengthWindTempTerm(runwayLength, windFactors[3], windFactors[4],
                                              wind, Min2(temp, tRef) - isaTemp)
                      ELSE 0)
                 + (IF temp > tRef
                      THEN MulDiv(windFactors[5] * wind, Min2(temp, tMax) - tRef, 100000)
                      ELSE 0)
                 + (IF temp > tMax
                      THEN MulDiv(windFactors[6] * wind, temp - tMax, 100000)
                      ELSE 0),
               wind)


----------------------------------------------------------------------------
(* Limit weights of one limiting factor, and the governing factor *)

calculateBaseRunwayPerfLimit(calc, length, conf) ==
  CASE conf = 1 -> lerp1(IF calc = "a380x_takeoff" THEN runwayPerfLimitConf1
                         ELSE runwayPerfLimitConf1_part001, length)
    [] conf = 2 -> lerp1(IF calc = "a380x_takeoff" THEN runwayPerfLimitConf2
                         ELSE runwayPerfLimitConf2_part001, length)
    [] conf = 3 -> lerp1(IF calc = "a380x_takeoff" THEN runwayPerfLimitConf3
                         ELSE runwayPerfLimitConf3_part001, length)
    [] OTHER -> NaN

\* 1000 * (length * factor1 + factor2)
calculateBaseLimit(length, conf, factors) ==
  MulDiv(length, factors[conf][1], 10000) + factors[conf][2] \div 10

\* the tables and kernels calculateWeightLimits selects for a limiting factor
baseFactors(limitingFactor) ==
  CASE limitingFactor = "SecondSegment" -> secondSegmentBaseFactor
    [] limitingFactor = "BrakeEnergy" -> brakeEnergyBaseFactor
    [] limitingFactor = "Vmcg" -> vmcgBaseFactor

slopeFactors(limitingFactor) ==
  CASE limitingFactor = "Runway" -> runwaySlopeFactor
    [] limitingFactor = "SecondSegment" -> secondSegmentSlopeFactor
    [] limitingFactor = "BrakeEnergy" -> brakeEnergySlopeFactor
    [] limitingFactor = "Vmcg" -> vmcgSlopeFactor

altFactors(limitingFactor) ==
  CASE limitingFactor = "Runway" -> runwayPressureAltFactor
    [] limitingFactor = "SecondSegment" -> secondSegmentPressureAltFactor
    [] limitingFactor = "BrakeEnergy" -> brakeEnergyPressureAltFactor
    [] limitingFactor = "Vmcg" -> vmcgPressureAltFactor

tempDeltaFunc(limitingFactor, temp, result) ==
  LET i == result.inputs
      p == result.params
  IN  CASE limitingFactor = "Runway" ->
             calculateRunwayTempDelta(temp, i.conf, p.tRef, p.tMax, p.tFlexMax,
                                      p.adjustedTora, p.pressureAlt, p.isaTemp)
        [] limitingFactor = "SecondSegment" ->
             calculateSecondSegmentTempDelta(temp, i.conf, p.tRef, p.tMax, p.tFlexMax,
                                             p.adjustedTora, p.pressureAlt, p.isaTemp)
        [] limitingFactor = "BrakeEnergy" ->
             calculateBrakeEnergyTempDelta(temp, i.conf, p.tRef, p.tMax, p.tFlexMax,
                                           p.adjustedTora, p.pressureAlt, p.isaTemp)
        [] limitingFactor = "Vmcg" ->
             calculateVmcgTempDelta(temp, i.conf, p.tRef, p.tMax, p.tFlexMax,
                                    p.adjustedTora, p.pressureAlt, p.isaTemp)

windDeltaFunc(limitingFactor, temp, result) ==
  LET i == result.inputs
      p == result.params
  IN  CASE limitingFactor = "Runway" ->
             calculateRunwayWindDelta(temp, i.conf, p.isaTemp, p.tRef, p.tMax,
                                      p.tFlexMax, p.adjustedTora, p.headwind)
        [] limitingFactor = "SecondSegment" ->
             calculateSecondSegmentWindDelta(temp, i.conf, p.isaTemp, p.tRef, p.tMax,
                                             p.tFlexMax, p.adjustedTora, p.headwind)
        [] limitingFactor = "BrakeEnergy" ->
             calculateBrakeEnergyWindDelta(temp, i.conf, p.isaTemp, p.tRef, p.tMax,
                                           p.tFlexMax, p.adjustedTora, p.headwind)
        [] limitingFactor = "Vmcg" ->
             calculateVmcgWindDelta(temp, i.conf, p.isaTemp, p.tRef, p.tMax,
                                    p.tFlexMax, p.adjustedTora, p.headwind)

\* bleed penalty of wing anti-ice and packs, kg
deltaBleed(calc, inputs) ==
  IF calc = "a380x_takeoff"
    THEN (IF inputs.antiIce = "EngineWing" THEN 1600 ELSE 0)
           + (IF inputs.packs THEN 1500 ELSE 0)
    ELSE (IF inputs.antiIce = "EngineWing" THEN 10368 ELSE 0)
           + (IF inputs.packs THEN 9720 ELSE 0)

\* a slope correction of the opposite sign
slopeDelta_Opposite(slopeFactor, adjustedTora, slope) ==
  -MulDiv(MulDiv(adjustedTora, slopeFactor, 1000), slope, 1000)

\* weights.deltaSlope = 1000 * slopeFactors[conf] * adjustedTora * slope, kg;
\* slopeFactor scaled by 1e6, adjustedTora in tenths of a metre, slope in
\* hundredths of a percent
slopeDelta(slopeFactor, adjustedTora, slope) ==
  MulDiv(MulDiv(adjustedTora, slopeFactor, 1000), slope, 1000)

calculateWeightLimits(calc, limitingFactor, result) ==
  LET i == result.inputs
      p == result.params
      baseLimit ==
        IF limitingFactor = "Runway"
          THEN calculateBaseRunwayPerfLimit(calc, p.adjustedTora, i.conf)
          ELSE calculateBaseLimit(p.adjustedTora, i.conf, baseFactors(limitingFactor))
      deltaSlope == slopeDelta(slopeFactors(limitingFactor)[i.conf], p.adjustedTora,
                               i.slope)
      slopeLimit == NSub3(baseLimit, deltaSlope, 0)
      altFactor == altFactors(limitingFactor)[i.conf]
      deltaAlt ==
        MulDiv(p.pressureAlt * altFactor[1] + altFactor[2] * 10000,
               p.pressureAlt, 10000000)
      altLimit == NSub3(slopeLimit, deltaAlt, 0)
      bleed == deltaBleed(calc, i)
      oatDeltaTemp == tempDeltaFunc(limitingFactor, i.oat, result)
      oatDeltaWind == windDeltaFunc(limitingFactor, i.oat, result)
      oatLimitNoBleed == NSub3(altLimit, oatDeltaTemp, oatDeltaWind)
      tRefDeltaTemp == tempDeltaFunc(limitingFactor, p.tRef, result)
      tRefDeltaWind == windDeltaFunc(limitingFactor, p.tRef, result)
      tRefLimitNoBleed == NSub3(altLimit, tRefDeltaTemp, tRefDeltaWind)
      tMaxDeltaTemp == tempDeltaFunc(limitingFactor, p.tMax, result)
      tMaxDeltaWind == windDeltaFunc(limitingFactor, p.tMax, result)
      tMaxLimitNoBleed == NSub3(altLimit, tMaxDeltaTemp, tMaxDeltaWind)
      tFlexMaxDeltaTemp == tempDeltaFunc(limitingFactor, p.tFlexMax, result)
      tFlexMaxDeltaWind == windDeltaFunc(limitingFactor, p.tFlexMax, result)
      tFlexMaxLimitNoBleed == NSub3(altLimit, tFlexMaxDeltaTemp, tFlexMaxDeltaWind)
  IN  [baseLimit |-> baseLimit,
       deltaSlope |-> deltaSlope,
       slopeLimit |-> slopeLimit,
       deltaAlt |-> deltaAlt,
       altLimit |-> altLimit,
       oatDeltaTemp |-> oatDeltaTemp,
       oatDeltaWind |-> oatDeltaWind,
       oatLimitNoBleed |-> oatLimitNoBleed,
       oatLimit |-> NSub3(oatLimitNoBleed, bleed, 0),
       tRefDeltaTemp |-> tRefDeltaTemp,
       tRefDeltaWind |-> tRefDeltaWind,
       tRefLimitNoBleed |-> tRefLimitNoBleed,
       tRefLimit |-> NSub3(tRefLimitNoBleed, bleed, 0),
       tMaxDeltaTemp |-> tMaxDeltaTemp,
       tMaxDeltaWind |-> tMaxDeltaWind,
       tMaxLimitNoBleed |-> tMaxLimitNoBleed,
       tMaxLimit |-> NSub3(tMaxLimitNoBleed, bleed, 0),
       tFlexMaxDeltaTemp |-> tFlexMaxDeltaTemp,
       tFlexMaxDeltaWind |-> tFlexMaxDeltaWind,
       tFlexMaxLimitNoBleed |-> tFlexMaxLimitNoBleed,
       tFlexMaxLimit |-> NSub3(tFlexMaxLimitNoBleed, bleed, 0)]

\* the loop of getLimitingFactor over Object.values(LimitingFactor) from index i
RECURSIVE getLimitingFactorFrom(_, _, _, _, _)
getLimitingFactorFrom(temp, limits, i, limitingWeight, limitingFactor) ==
  IF i > Len(LimitingFactor) THEN limitingFactor
  ELSE IF NLt(limits[LimitingFactor[i]][temp], limitingWeight)
    THEN getLimitingFactorFrom(temp, limits, i + 1,
                               limits[LimitingFactor[i]][temp], LimitingFactor[i])
    ELSE getLimitingFactorFrom(temp, limits, i + 1, limitingWeight, limitingFactor)

\* a loop that takes over the factor on weights[temp] <= limitingWeight
getLimitingFactor_LastOnTie(temp, result) ==
  LimitingFactor[CHOOSE i \in 1..Len(LimitingFactor) :
    /\ \A j \in 1..Len(LimitingFactor) :
         result.limits[LimitingFactor[i]][temp] <= result.limits[LimitingFactor[j]][temp]
    /\ \A j \in (i + 1)..Len(LimitingFactor) :
         result.limits[LimitingFactor[i]][temp] < result.limits[LimitingFactor[j]][temp]]

getLimitingFactor(temp, result) ==
  getLimitingFactorFrom(temp, result.limits, 1, Infinity, "Runway")

\* tvmcgFactors, indexed by conf: <<headwind kt, <<factor1 * 1e5, factor2 in hundredths of a degree>> >>
tvmcgFactors ==
  << << <<-15, <<6485, -9947>>>>, <<0, <<98950, -11654>>>>,
        <<10, <<13858, -17115>>>> >>,
     << <<-15, <<6573, -10297>>>>, <<0, <<10579, -13296>>>>,
        <<10, <<6575, -6440>>>> >>,
     << <<-15, <<7002, -10662>>>>, <<0, <<8804, -10842>>>>,
        <<10, <<7728, -8208>>>> >> >>

\* wetTowAdjustmentFactorsAtOrBelowTvmcg, indexed by conf: <<headwind kt, <<f0 * 1e6, f1 * 1e3, f2 * 1e6, f3 * 1e3>> >>
wetTowAdjustmentFactorsAtOrBelowTvmcg ==
  << << <<-15, <<54980, -126980, 9030, -28350>>>>,
        <<0, <<23910, -48940, 430, -1640>>>>,
        <<10, <<10440, -21530, 220, -1120>>>> >>,
     << <<-15, <<38560, -94674, 9650, -30090>>>>,
        <<0, <<26860, -48630, -110, -80>>>>,
        <<10, <<570, -2940, -40, -130>>>> >>,
     << <<-15, <<19240, -57580, 0, 0>>>>,
        <<0, <<21840, -44910, -190, 100>>>>,
        <<10, <<570, -2940, 470, -1600>>>> >> >>

\* wetTowAdjustmentFactorsAboveTvmcg, indexed by conf: <<headwind kt, <<f0 * 1e6, f1 * 1e3, f2 * 1e6, f3 * 1e3>> >>
wetTowAdjustmentFactorsAboveTvmcg ==
  << << <<-15, <<19700, -61230, 0, 0>>>>, <<0, <<18870, -48470, 0, 0>>>>,
        <<10, <<45000, -86320, 0, 0>>>> >>,
     << <<-15, <<19410, -60020, 0, 0>>>>, <<0, <<27970, -61990, 0, 0>>>>,
        <<10, <<31290, -63610, 0, 0>>>> >>,
     << <<-15, <<19780, -61430, 0, 0>>>>, <<0, <<27650, -61880, 0, 0>>>>,
        <<10, <<36620, -72450, 0, 0>>>> >> >>

\* wetFlexAdjustmentFactorsAtOrBelowTvmcg, indexed by conf: <<headwind kt, <<f0 * 1e6, f1 * 1e3, f2 * 1e6, f3 * 1e3>> >>
wetFlexAdjustmentFactorsAtOrBelowTvmcg ==
  << << <<-15, <<79330, -190570, 20740, -65050>>>>,
        <<0, <<43310, -90860, 980, -3880>>>>,
        <<10, <<23300, -48800, 720, -3140>>>> >>,
     << <<-15, <<29000, -89900, 9900, -38420>>>>,
        <<0, <<38450, -80200, -1000000, 0>>>>,
        <<10, <<1670, -7010, 266, -1610>>>> >>,
     << <<-15, <<39930, -94090, 0, 0>>>>,
        <<0, <<38450, -80200, -1000000, 0>>>>,
        <<10, <<8350, -18340, -1000000, 0>>>> >> >>

\* wetFlexAdjustmentFactorsAboveTvmcg, indexed by conf: <<headwind kt, <<f0 * 1e6, f1 * 1e3, f2 * 1e6, f3 * 1e3>> >>
wetFlexAdjustmentFactorsAboveTvmcg ==
  << << <<-15, <<-37160, 31850, 86180, -234920>>>>,
        <<0, <<-58610, 51010, 43220, -113390>>>>,
        <<10, <<101200, -195480, 0, 0>>>> >>,
     << <<-15, <<-28500, 19430, 69510, -193380>>>>,
        <<0, <<-46980, 37580, 64380, -139900>>>>,
        <<10, <<61590, -126560, 0, 0>>>> >>,
     << <<-15, <<-2400, 4250, -21180, 46200>>>>,
        <<0, <<-26450, 9810, 61160, -131790>>>>,
        <<10, <<48410, -104220, 0, 0>>>> >> >>
\* weightCorrectionContaminated<condition>, indexed by conf: <<runway length in tenths of a metre, weight correction kg>>
weightCorrectionContaminated ==
  [Contaminated6mmWater |->
     << << <<25000, 97200>>, <<30000, 93312>>, <<35000, 68040>>,
           <<40000, 44064>> >>,
        << <<20000, 112752>>, <<25000, 112752>>, <<30000, 100440>> >>,
        << <<17500, 121176>>, <<20000, 121176>>, <<25000, 112752>> >> >>,
   Contaminated13mmWater |->
     << << <<25000, 121176>>, <<30000, 113400>>, <<35000, 88128>>,
           <<40000, 62856>> >>,
        << <<20000, 136080>>, <<25000, 134784>>, <<30000, 119880>> >>,
        << <<17500, 141912>>, <<20000, 141912>>, <<25000, 132840>> >> >>,
   Contaminated6mmSlush |->
     << << <<25000, 99792>>, <<30000, 92016>>, <<35000, 67392>>,
           <<40000, 42768>> >>,
        << <<20000, 115992>>, <<25000, 115344>>, <<30000, 100440>> >>,
        << <<17500, 124416>>, <<20000, 123120>>, <<25000, 111456>> >> >>,
   Contaminated13mmSlush |->
     << << <<25000, 125712>>, <<30000, 115344>>, <<35000, 88776>>,
           <<40000, 64800>> >>,
        << <<20000, 142560>>, <<25000, 139968>>, <<30000, 121824>> >>,
        << <<17500, 117936>>, <<20000, 146448>>, <<25000, 135432>> >> >>,
   ContaminatedCompactedSnow |->
     << << <<25000, 66096>>, <<30000, 58320>>, <<35000, 30456>>,
           <<40000, 19440>> >>,
        << <<20000, 86184>>, <<25000, 82296>>, <<30000, 66744>> >>,
        << <<17500, 97848>>, <<20000, 95904>>, <<25000, 82296>> >> >>,
   Contaminated5mmWetSnow |->
     << << <<25000, 73872>>, <<30000, 68040>>, <<35000, 38880>>,
           <<40000, 19440>> >>,
        << <<20000, 97200>>, <<25000, 92016>>, <<30000, 77112>> >>,
        << <<17500, 113400>>, <<20000, 110808>>, <<25000, 92664>> >> >>,
   Contaminated15mmWetSnow |->
     << << <<25000, 105624>>, <<30000, 96552>>, <<35000, 70632>>,
           <<40000, 46008>> >>,
        << <<20000, 123120>>, <<25000, 121176>>, <<30000, 104328>> >>,
        << <<17500, 130896>>, <<20000, 129600>>, <<25000, 117288>> >> >>,
   Contaminated30mmWetSnow |->
     << << <<25000, 149040>>, <<30000, 136728>>, <<35000, 124416>>,
           <<40000, 124416>> >>,
        << <<20000, 160056>>, <<25000, 158112>>, <<30000, 145152>> >>,
        << <<17500, 163296>>, <<20000, 162000>>, <<25000, 153576>> >> >>,
   Contaminated10mmDrySnow |->
     << << <<25000, 73872>>, <<30000, 68040>>, <<35000, 38880>>,
           <<40000, 19440>> >>,
        << <<20000, 97200>>, <<25000, 92016>>, <<30000, 76464>> >>,
        << <<17500, 113400>>, <<20000, 110808>>, <<25000, 92664>> >> >>,
   Contaminated100mmDrySnow |->
     << << <<25000, 125064>>, <<30000, 127008>>, <<35000, 113400>>,
           <<40000, 102384>> >>,
        << <<20000, 136728>>, <<25000, 142560>>, <<30000, 138672>> >>,
        << <<17500, 143208>>, <<20000, 144504>>, <<25000, 141264>> >> >>]

\* mtowContaminated<condition>, indexed by conf: <<corrected weight kg, MTOW kg>>
mtowContaminated ==
  [Contaminated6mmWater |->
     << << <<374544, 308448>>, <<382320, 343440>>, <<393336, 393336>>,
           <<512000, 512000>> >>,
        << <<368064, 308448>>, <<382320, 382320>>, <<512000, 512000>> >>,
        << <<370656, 308448>>, <<382320, 362880>>, <<387504, 387504>>,
           <<512000, 512000>> >> >>,
   Contaminated13mmWater |->
     << << <<345384, 308448>>, <<349920, 330480>>, <<355104, 355104>>,
           <<512000, 512000>> >>,
        << <<345384, 308448>>, <<349920, 330480>>, <<354456, 354456>>,
           <<512000, 512000>> >>,
        << <<366120, 308448>>, <<382320, 382320>>, <<512000, 512000>> >> >>,
   Contaminated6mmSlush |->
     << << <<370656, 308448>>, <<382320, 362880>>, <<387504, 387504>>,
           <<512000, 512000>> >>,
        << <<364176, 308448>>, <<382320, 362880>>, <<512000, 512000>> >>,
        << <<345384, 308448>>, <<349920, 330480>>, <<355104, 355104>>,
           <<512000, 512000>> >> >>,
   Contaminated13mmSlush |->
     << << <<340848, 308448>>, <<349920, 349920>>, <<512000, 512000>> >>,
        << <<336960, 308448>>, <<344736, 344736>>, <<512000, 512000>> >>,
        << <<336960, 308448>>, <<344736, 344736>>, <<512000, 512000>> >> >>,
   ContaminatedCompactedSnow |->
     << << <<370656, 308448>>, <<382320, 362880>>, <<387504, 387504>>,
           <<512000, 512000>> >>,
        << <<364176, 308448>>, <<377784, 377784>>, <<512000, 512000>> >>,
        << <<366120, 308448>>, <<382320, 382320>>, <<512000, 512000>> >> >>,
   Contaminated5mmWetSnow |->
     << << <<366120, 308448>>, <<382320, 382320>>, <<512000, 512000>> >>,
        << <<371952, 308448>>, <<382320, 362880>>, <<388800, 388800>>,
           <<512000, 512000>> >>,
        << <<374544, 308448>>, <<382320, 343440>>, <<393336, 393336>>,
           <<512000, 512000>> >> >>,
   Contaminated15mmWetSnow |->
     << << <<349272, 308448>>, <<349920, 311040>>, <<360936, 360936>>,
           <<512000, 512000>> >>,
        << <<345384, 308448>>, <<349920, 330480>>, <<354456, 354456>>,
           <<512000, 512000>> >>,
        << <<345384, 308448>>, <<349920, 330480>>, <<355104, 355104>>,
           <<512000, 512000>> >> >>,
   Contaminated30mmWetSnow |->
     << << <<311688, 308448>>, <<313104, 313104>>, <<512000, 512000>> >>,
        << <<308448, 308448>>, <<512000, 512000>> >>,
        << <<308448, 308448>>, <<512000, 512000>> >> >>,
   Contaminated10mmDrySnow |->
     << << <<366120, 308448>>, <<382320, 382320>>, <<512000, 512000>> >>,
        << <<371952, 308448>>, <<382320, 362880>>, <<388800, 388800>>,
           <<512000, 512000>> >>,
        << <<374544, 308448>>, <<382320, 343440>>, <<393336, 393336>>,
           <<512000, 512000>> >> >>,
   Contaminated100mmDrySnow |->
     << << <<315576, 308448>>, <<317520, 317520>>, <<512000, 512000>> >>,
        << <<311688, 308448>>, <<313104, 313104>>, <<512000, 512000>> >>,
        << <<315576, 308448>>, <<317520, 317520>>, <<512000, 512000>> >> >>]

\* minCorrectedTow<condition>, indexed by conf, kg
minCorrectedTowContaminated ==
  [Contaminated6mmWater |-> <<374544, 368064, 370656>>,
   Contaminated13mmWater |-> <<345384, 345384, 366120>>,
   Contaminated6mmSlush |-> <<370656, 364176, 345384>>,
   Contaminated13mmSlush |-> <<340848, 336960, 336960>>,
   ContaminatedCompactedSnow |-> <<370656, 364176, 366120>>,
   Contaminated5mmWetSnow |-> <<366120, 371952, 374544>>,
   Contaminated15mmWetSnow |-> <<349272, 345384, 345384>>,
   Contaminated30mmWetSnow |-> <<311688, 308448, 308448>>,
   Contaminated10mmDrySnow |-> <<366120, 371952, 374544>>,
   Contaminated100mmDrySnow |-> <<315576, 313104, 315576>>]

----------------------------------------------------------------------------
(* Tvmcg, runway-condition MTOW, flex temperature *)

\* factor1 * (adjustedTora - pressureAlt / 10) + factor2, hundredths of a degree
tvmcgOf(factors, params) ==
  MulDiv(params.adjustedTora - params.pressureAlt, factors[1], 10000) + factors[2]

\* hundredths of a degree
calculateTvmcg(calc, inputs, params) ==
  IF calc = "a380x_takeoff" THEN params.tRef
  ELSE tvmcgOf(vectorGet(vec2Cache[calc], tvmcgFactors[inputs.conf],
                         Max2(params.headwind, -15)),
               params)

\* Math.min(0, f0 * lengthAltCoef + f1, f2 * lengthAltCoef + f3) in thousandths,
\* lengthAltCoef = adjustedTora - pressureAlt / 20
wetAdjustment(aboveTvmcg, atOrBelowTvmcg, result, tvmcg) ==
  LET factors == vectorGet(vec4Cache["part_001"],
                           (IF result.inputs.oat > tvmcg THEN aboveTvmcg
                            ELSE atOrBelowTvmcg)[result.inputs.conf],
                           result.params.headwind)
      lengthAltCoef == result.params.adjustedTora - MulDiv(result.params.pressureAlt, 1, 2)
  IN  Min2(0, Min2(MulDiv(lengthAltCoef, factors[1], 10000) + factors[2],
                   MulDiv(lengthAltCoef, factors[3], 10000) + factors[4]))

\* calculateContaminatedMtow comparing the take-off weight, not the corrected
\* weight, against the minimum
calculateContaminatedMtow_TowCompared(result, dryMtow) ==
  LET c == result.inputs.runwayCondition
      conf == result.inputs.conf
      correctedWeight ==
        NSub3(dryMtow, lerp1(weightCorrectionContaminated[c][conf],
                             result.params.adjustedTora), 0)
      mtow == IF IsNaN(correctedWeight) THEN NaN
              ELSE lerp1(mtowContaminated[c][conf], correctedWeight)
  IN  <<mtow,
        IF NLt(result.inputs.tow, minCorrectedTowContaminated[c][conf])
          THEN "TooLight" ELSE "None">>

\* <<mtow, error>>: error is "TooLight", or "None" when it is left alone
calculateContaminatedMtow(result, dryMtow) ==
  LET c == result.inputs.runwayCondition
      conf == result.inputs.conf
      correctedWeight ==
        NSub3(dryMtow, lerp1(weightCorrectionContaminated[c][conf],
                             result.params.adjustedTora), 0)
      mtow == IF IsNaN(correctedWeight) THEN NaN
              ELSE lerp1(mtowContaminated[c][conf], correctedWeight)
  IN  <<mtow,
        IF NLt(correctedWeight, minCorrectedTowContaminated[c][conf])
          THEN "TooLight" ELSE "None">>

\* the MTOW for the runway condition, and the error the branch assigns
\* ("None": no assignment): <<mtow, error>>
runwayConditionMtow(calc, result, dryMtow) ==
  IF result.inputs.runwayCondition = "Dry" THEN <<dryMtow, "None">>
  ELSE IF result.inputs.runwayCondition = "Wet"
    THEN IF calc = "a380x_takeoff" THEN <<dryMtow, "None">>
         ELSE <<IF IsNaN(dryMtow) THEN NaN
                ELSE dryMtow - CeilDiv(wetAdjustment(wetTowAdjustmentFactorsAboveTvmcg,
                                                     wetTowAdjustmentFactorsAtOrBelowTvmcg,
                                                     result, result.tvmcg), 1000),
                "None">>
  ELSE IF calc = "a380x_takeoff" THEN <<dryMtow, "InvalidData">>
  ELSE calculateContaminatedMtow(result, dryMtow)

\* result.mtow as reported
reportedMtow(calc, mtow) ==
  IF calc = "a380x_takeoff" THEN mtow ELSE NMin(mtow, structuralMtow)

applyForwardCgWeightCorrection(forwardCg, oatLimitingFactor) ==
  forwardCg /\ oatLimitingFactor \in {"Runway", "Vmcg"}

\* the speed-side threshold of the forward-CG correction, kg
forwardCgSpeedThreshold(calc) == IF calc = "a380x_takeoff" THEN 400000 ELSE 473040

\* the forward-CG addition taken by its magnitude
forwardCgCorrectedMtow_Magnitude(conf, mtow) ==
  IF IsNaN(mtow) THEN NaN
  ELSE mtow + Abs(MulDiv(mtow, cgFactors[conf][1], 1000) + cgFactors[conf][2]) \div 1000

\* mtow += Math.max(0, cgFactors[0] * mtow + cgFactors[1])
forwardCgCorrectedMtow(conf, mtow) ==
  IF IsNaN(mtow) THEN NaN
  ELSE mtow + Max2(0, MulDiv(mtow, cgFactors[conf][1], 1000) + cgFactors[conf][2]) \div 1000

calculateFlexTow(result, limitingFactor, limitingWeights, temperature) ==
  NSub3(limitingWeights.altLimit,
        tempDeltaFunc(limitingFactor, temperature, result),
        windDeltaFunc(limitingFactor, temperature, result))

\* a loop that stops at the first temperature that qualifies
RECURSIVE flexScan_First(_, _, _, _, _, _)
flexScan_First(result, fromLimitingFactor, toLimitingFactor, t, iterTo, found) ==
  IF t > iterTo \/ found # <<>> THEN found
  ELSE LET fromLimitTow == calculateFlexTow(result, fromLimitingFactor,
                                            result.limits[fromLimitingFactor], t)
           toLimitTow == calculateFlexTow(result, toLimitingFactor,
                                          result.limits[toLimitingFactor], t)
       IN  flexScan_First(result, fromLimitingFactor, toLimitingFactor, t + 100, iterTo,
                          IF NLe(result.inputs.tow, NMin(fromLimitTow, toLimitTow))
                            THEN <<t, IF NLe(fromLimitTow, toLimitTow)
                                        THEN fromLimitingFactor ELSE toLimitingFactor>>
                            ELSE found)

\* the loop of calculateFlexTemp from t; found is <<>> or <<flexTemp, factor>>
RECURSIVE flexScan(_, _, _, _, _, _)
flexScan(result, fromLimitingFactor, toLimitingFactor, t, iterTo, found) ==
  IF t > iterTo THEN found
  ELSE LET fromLimitTow == calculateFlexTow(result, fromLimitingFactor,
                                            result.limits[fromLimitingFactor], t)
           toLimitTow == calculateFlexTow(result, toLimitingFactor,
                                          result.limits[toLimitingFactor], t)
       IN  flexScan(result, fromLimitingFactor, toLimitingFactor, t + 100, iterTo,
                    IF NLe(result.inputs.tow, NMin(fromLimitTow, toLimitTow))
                      THEN <<t, IF NLe(fromLimitTow, toLimitTow)
                                  THEN fromLimitingFactor ELSE toLimitingFactor>>
                      ELSE found)

\* the iterations of a loop that advances by half a degree
RECURSIVE flexScanSteps_HalfDegree(_, _)
flexScanSteps_HalfDegree(t, iterTo) ==
  IF t > iterTo THEN 0 ELSE 1 + flexScanSteps_HalfDegree(t + 50, iterTo)

\* the number of iterations of for (let t = iterFrom; t <= iterTo; t++) from t
RECURSIVE flexScanSteps(_, _)
flexScanSteps(t, iterTo) ==
  IF t > iterTo THEN 0 ELSE 1 + flexScanSteps(t + 100, iterTo)

\* the adjustments of a found flex temperature, hundredths of a degree
adjustedFlexTemp(calc, result, tvmcg, flexTemp) ==
  LET bled == flexTemp
                - (CASE result.inputs.antiIce = "Engine" -> 200
                     [] result.inputs.antiIce = "EngineWing" -> 600
                     [] OTHER -> 0)
                - (IF result.inputs.packs THEN 200 ELSE 0)
      whole == TruncC(Min2(bled, result.params.tFlexMax))
  IN  IF calc = "part_001" /\ result.inputs.runwayCondition = "Wet"
        THEN whole - CeilDiv(wetAdjustment(wetFlexAdjustmentFactorsAboveTvmcg,
                                           wetFlexAdjustmentFactorsAtOrBelowTvmcg,
                                           result, tvmcg), 10)
        ELSE whole

\* the flex temperature the scan of calculateFlexTemp retains, before any
\* adjustment: <<flexTemp, flexLimitingFactor>>, or <<>> when the take-off
\* weight is not below the limit at Tref or no scanned temperature qualifies
scanFlexTemp(result) ==
  IF NLt(result.inputs.tow, result.limits[result.tRefLimitingFactor].tRefLimit)
    THEN IF NGt(result.inputs.tow,
                result.limits[result.tMaxLimitingFactor].tMaxLimitNoBleed)
           THEN flexScan(result, result.tRefLimitingFactor,
                         result.tMaxLimitingFactor,
                         result.params.tRef, result.params.tMax, <<>>)
         ELSE IF NGt(result.inputs.tow,
                     result.limits[result.tFlexMaxLimitingFactor].tFlexMaxLimitNoBleed)
           THEN flexScan(result, result.tMaxLimitingFactor,
                         result.tFlexMaxLimitingFactor,
                         result.params.tMax, result.params.tFlexMax, <<>>)
         ELSE flexScan(result, result.tFlexMaxLimitingFactor,
                       result.tFlexMaxLimitingFactor,
                       result.params.tFlexMax, result.params.tFlexMax + 800, <<>>)
    ELSE <<>>

\* the return of calculateFlexTemp for a scan result
emittedFlex_NoOatGuard(calc, result, tvmcg, found) ==
  IF found # <<>>
    THEN <<adjustedFlexTemp(calc, result, tvmcg, found[1]), found[2]>>
    ELSE <<>>

emittedFlex(calc, result, tvmcg, found) ==
  IF found # <<>>
       /\ adjustedFlexTemp(calc, result, tvmcg, found[1]) > result.inputs.oat
    THEN <<adjustedFlexTemp(calc, result, tvmcg, found[1]), found[2]>>
    ELSE <<>>

\* calculateFlexTemp with the final comparison against OAT left out
calculateFlexTemp_NoOatGuard(calc, result, tvmcg) ==
  emittedFlex_NoOatGuard(calc, result, tvmcg, scanFlexTemp(result))

\* <<flexTemp, flexLimitingFactor>>, or <<>> for [undefined, undefined]
calculateFlexTemp(calc, result, tvmcg) ==
  emittedFlex(calc, result, tvmcg, scanFlexTemp(result))

----------------------------------------------------------------------------
(* V-speeds, stabiliser trim, calculateTakeoffPerformance and              *)
(* calculateTakeoffPerformanceOptConf                                      *)

\* calculateDryVSpeeds with the bases of V1 and V2 exchanged
calculateDryVSpeeds_BasesExchanged(result, applyForwardCgSpeedCorrection) ==
  [v2Base |-> 120000 + result.inputs.tow \div 10,
   vRBase |-> 130000 + result.inputs.tow \div 10,
   v1Base |-> 140000 + result.inputs.tow \div 10,
   dryV1 |-> 140000 + result.inputs.tow \div 10,
   dryVR |-> 130000 + result.inputs.tow \div 10,
   dryV2 |-> 120000 + result.inputs.tow \div 10]

\* speeds.v1Base, vRBase, v2Base and the dry speeds, thousandths of a knot
calculateDryVSpeeds(result, applyForwardCgSpeedCorrection) ==
  [v2Base |-> 140000 + result.inputs.tow \div 10,
   vRBase |-> 130000 + result.inputs.tow \div 10,
   v1Base |-> 120000 + result.inputs.tow \div 10,
   dryV1 |-> 120000 + result.inputs.tow \div 10,
   dryVR |-> 130000 + result.inputs.tow \div 10,
   dryV2 |-> 140000 + result.inputs.tow \div 10]

\* The body of calculateVSpeeds of part_001 lies outside the file.  Its
\* speeds are kept as terms over what the method is handed: a speed name
\* applied to the wind and forceToga of the call that computes it and to the
\* speed-correction flag.  The other arguments are those the result echoes
\* (the forceToga re-entry changes wind and forceToga only), and every other
\* field of the result is a function of the arguments.  It assigns no error.
vSpeedTerm(name, result, applyForwardCgSpeedCorrection) ==
  <<name, result.inputs.wind, result.inputs.forceToga, applyForwardCgSpeedCorrection>>

\* the fields calculateVSpeeds assigns on result
calculateVSpeeds(calc, result, applyForwardCgSpeedCorrection, tvmcg) ==
  IF calc = "a380x_takeoff"
    THEN IF result.inputs.runwayCondition \in {"Dry", "Wet"}
           THEN LET speeds == calculateDryVSpeeds(result, applyForwardCgSpeedCorrection)
                IN  [intermediateSpeeds |-> speeds,
                     v1 |-> speeds.dryV1,
                     vR |-> speeds.dryVR,
                     v2 |-> speeds.dryV2]
           ELSE [error |-> "InvalidData"]
    ELSE [intermediateSpeeds |->
            vSpeedTerm("intermediateSpeeds", result, applyForwardCgSpeedCorrection),
          v1 |-> vSpeedTerm("v1", result, applyForwardCgSpeedCorrection),
          vR |-> vSpeedTerm("vR", result, applyForwardCgSpeedCorrection),
          v2 |-> vSpeedTerm("v2", result, applyForwardCgSpeedCorrection)]

\* MathUtils.round(MathUtils.lerp(cg, lower, 43, 3.8, -2.5, true, true), 0.1),
\* in tenths of a degree; cg in hundredths of %MAC
calculateStabTrim(calc, cg) ==
  LET lower == IF calc = "a380x_takeoff" THEN 2300 ELSE 2900
      perHundredth == IF calc = "a380x_takeoff" THEN 315 ELSE 450
      clamped == Max2(lower, Min2(4300, cg))
  IN  (380000 - perHundredth * (clamped - lower) + 5000) \div 10000

\* if (mtow >= tow), taken strictly
mtowCoversTow_Strict(mtow, tow) == NGt(mtow, tow)

\* if (mtow >= tow)
mtowCoversTow(mtow, tow) == NGe(mtow, tow)

\* the arguments of the forceToga re-entry, keeping the wind of the call
forceTogaInputs_ActualWind(inputs) == [inputs EXCEPT !.forceToga = FALSE]

\* the arguments of the forceToga re-entry: 15 kt tailwind, forceToga false
forceTogaInputs(inputs) == [inputs EXCEPT !.wind = -15, !.forceToga = FALSE]

\* the most nested calls of calculateTakeoffPerformance a call with these
\* arguments can make: the only call inside the method is the forceToga
\* re-entry, made when forceToga is set
RECURSIVE reentries(_)
reentries(inputs) ==
  IF inputs.forceToga THEN 1 + reentries(forceTogaInputs(inputs)) ELSE 0

\* result.v1 = tailwindResult.v1 ... : a speed the tailwind result lacks stays
\* undefined
copiedSpeeds(tailwindResult) ==
  [k \in {"v1", "vR", "v2", "intermediateSpeeds"} \cap DOMAIN tailwindResult |->
     tailwindResult[k]]

\* [result.flex, result.params.flexLimitingFactor] = flex
withFlex(result, flex) ==
  IF flex = <<>> THEN result
  ELSE Merge(result,
             [flex |-> flex[1],
              params |-> Merge(result.params, [flexLimitingFactor |-> flex[2]])])

\* the result after checkInputs
checkedResult(calc, inputs, params) ==
  [inputs |-> inputs, params |-> params, error |-> checkInputs(calc, inputs, params)]

\* result.limits
weightLimits(calc, result) ==
  [Runway |-> calculateWeightLimits(calc, "Runway", result),
   SecondSegment |-> calculateWeightLimits(calc, "SecondSegment", result),
   BrakeEnergy |-> calculateWeightLimits(calc, "BrakeEnergy", result),
   Vmcg |-> calculateWeightLimits(calc, "Vmcg", result)]

\* the result with its limiting factors and tvmcg
governedResult(calc, result) ==
  Merge(result,
        [oatLimitingFactor |-> getLimitingFactor("oatLimit", result),
         tRefLimitingFactor |-> getLimitingFactor("tRefLimit", result),
         tMaxLimitingFactor |-> getLimitingFactor("tMaxLimit", result),
         tFlexMaxLimitingFactor |-> getLimitingFactor("tFlexMaxLimit", result),
         tvmcg |-> calculateTvmcg(calc, result.inputs, result.params)])

\* the result with result.mtow, the error of the branch left out
weighedResult_ErrorDropped(calc, result, conditioned) ==
  Merge(result, [mtow |-> reportedMtow(calc, conditioned[1])])

\* the result with result.mtow and the error of the runway-condition branch;
\* conditioned is <<mtow, error>>
weighedResult(calc, result, conditioned) ==
  Merge(result,
        IF conditioned[2] = "None"
          THEN [mtow |-> reportedMtow(calc, conditioned[1])]
          ELSE [mtow |-> reportedMtow(calc, conditioned[1]),
                error |-> conditioned[2]])

\* the result with the speeds calculateVSpeeds assigns
withVSpeeds(calc, result, applyForwardCgSpeedCorrection) ==
  Merge(result,
        calculateVSpeeds(calc, result, applyForwardCgSpeedCorrection, result.tvmcg))

\* the forceToga branch once the tailwind result is known
forceTogaResult(calc, result, applyForwardCgSpeedCorrection, tailwindResult) ==
  IF tailwindResult.error = "None"
    THEN Merge(result, copiedSpeeds(tailwindResult))
    ELSE withVSpeeds(calc, result, applyForwardCgSpeedCorrection)

RECURSIVE calculateTakeoffPerformance(_, _)

\* the branch of mtow >= tow: flex and speeds
speedsResult(calc, result, applyForwardCgSpeedCorrection) ==
  IF result.inputs.forceToga
    THEN forceTogaResult(calc, result, applyForwardCgSpeedCorrection,
                         calculateTakeoffPerformance(calc,
                                                     forceTogaInputs(result.inputs)))
    ELSE withVSpeeds(calc,
                     IF ~isContaminated(result.inputs.runwayCondition)
                       THEN withFlex(result,
                                     calculateFlexTemp(calc, result, result.tvmcg))
                       ELSE result,
                     applyForwardCgSpeedCorrection)

\* the weight check; mtow is the MTOW before the forward-CG addition
weightCheckedResult(calc, result, mtow, correctForwardCg) ==
  IF mtowCoversTow(IF correctForwardCg
                     THEN forwardCgCorrectedMtow(result.inputs.conf, mtow)
                     ELSE mtow,
                   result.inputs.tow)
    THEN speedsResult(calc, result,
                      correctForwardCg /\ NLe(mtow, forwardCgSpeedThreshold(calc)))
    ELSE Merge(result, [error |-> "TooHeavy"])

\* conditioned is <<mtow, error>> of the runway-condition branch
conditionedResult(calc, result, conditioned) ==
  weightCheckedResult(calc, weighedResult(calc, result, conditioned), conditioned[1],
                      applyForwardCgWeightCorrection(result.inputs.forwardCg,
                                                     result.oatLimitingFactor))

\* the body of if (result.error === None); result has its limiting factors
limitedResult(calc, result) ==
  conditionedResult(calc, result,
                    runwayConditionMtow(calc, result,
                                        result.limits[result.tRefLimitingFactor].oatLimit))

\* checked is the result after checkInputs
validatedResult(calc, checked) ==
  IF checked.error # "None" THEN checked
  ELSE limitedResult(calc,
                     governedResult(calc,
                                    Merge(checked,
                                          [limits |-> weightLimits(calc, checked)])))

\* inputs: the arguments of the call; an absent cg is undefined, and then so
\* is result.stabTrim
calculateTakeoffPerformance(calc, inputs) ==
  Merge(validatedResult(calc, checkedResult(calc, inputs, takeoffParams(calc, inputs))),
        IF Has(inputs, "cg") THEN [stabTrim |-> calculateStabTrim(calc, inputs.cg)]
        ELSE <<>>)

Null == -2000000002

\* JSON.stringify writes a NaN as null
jsonNumber(x) == IF IsNaN(x) THEN Null ELSE x

\* JSON.parse(JSON.stringify(result)): undefined properties are dropped (they
\* are absent here already), numbers that are NaN come back as null
deepCopy(result) ==
  [k \in DOMAIN result |->
     CASE k \in {"mtow", "tvmcg", "flex"} -> jsonNumber(result[k])
       [] k = "limits" ->
            [f \in DOMAIN result.limits |->
               [w \in DOMAIN result.limits[f] |-> jsonNumber(result.limits[f][w])]]
       [] OTHER -> result[k]]

\* the comparator of the sort, ranking the lowest flex first
optConfCompare_LowestFlexFirst(a, b) ==
  IF Has(a, "flex") = Has(b, "flex") /\ (Has(a, "flex") => a.flex = b.flex)
    THEN (IF Has(a, "v1") THEN a.v1 ELSE 0) - (IF Has(b, "v1") THEN b.v1 ELSE 0)
    ELSE (IF Has(a, "flex") THEN a.flex ELSE 0) - (IF Has(b, "flex") THEN b.flex ELSE 0)

\* a.flex === b.flex ? (a.v1 ?? 0) - (b.v1 ?? 0) : (b.flex ?? 0) - (a.flex ?? 0)
optConfCompare(a, b) ==
  IF Has(a, "flex") = Has(b, "flex") /\ (Has(a, "flex") => a.flex = b.flex)
    THEN (IF Has(a, "v1") THEN a.v1 ELSE 0) - (IF Has(b, "v1") THEN b.v1 ELSE 0)
    ELSE (IF Has(b, "flex") THEN b.flex ELSE 0) - (IF Has(a, "flex") THEN a.flex ELSE 0)

\* Array.prototype.sort is stable: x goes behind every element it does not
\* precede
RECURSIVE insertSorted(_, _)
insertSorted(sorted, x) ==
  IF sorted = <<>> THEN <<x>>
  ELSE IF optConfCompare(sorted[Len(sorted)], x) <= 0 THEN Append(sorted, x)
  ELSE Append(insertSorted(SubSeq(sorted, 1, Len(sorted) - 1), x), sorted[Len(sorted)])

RECURSIVE sortResults(_)
sortResults(results) ==
  IF results = <<>> THEN <<>>
  ELSE insertSorted(sortResults(SubSeq(results, 1, Len(results) - 1)),
                    results[Len(results)])

\* [1, 2, 3].map((conf) => this.calculateTakeoffPerformance(...)) up to conf
RECURSIVE confResults(_, _)
confResults(inputs, conf) ==
  IF conf = 0 THEN <<>>
  ELSE Append(confResults(inputs, conf - 1),
              calculateTakeoffPerformance("a380x_takeoff",
                                          Merge(inputs, [conf |-> conf])))

\* the returned copy: of the last result if none is left, else of the first
\* of the sorted ones
optimumResult(results, filteredResults) ==
  IF Len(filteredResults) = 0 THEN deepCopy(results[Len(results)])
  ELSE deepCopy(sortResults(filteredResults)[1])

\* results.filter((r) => r.error === None) and the choice among them
filteredOptimum(results) == optimumResult(results, SelectSeq(results, LAMBDA r : r.error = "None"))

\* inputs: the arguments of the call, which have no conf
calculateTakeoffPerformanceOptConf(inputs) == filteredOptimum(confResults(inputs, 3))
----------------------------------------------------------------------------
(* reconcileVSpeeds (a380x_takeoff.ts): speeds handed in are carried in    *)
(* hundredths of a knot, the reconciled speeds are whole knots             *)

\* <<pressure altitude ft, kcas in hundredths>>
minimumV1Vmc ==
  << <<-2000, 12200>>, <<0, 12100>>, <<2000, 12100>>, <<3000, 12000>>,
     <<4000, 12000>>, <<6000, 11800>>, <<8000, 11600>>, <<9200, 11500>> >>

\* <<pressure altitude ft, kcas in hundredths>>
minimumVrVmc ==
  << <<-2000, 12300>>, <<0, 12200>>, <<3000, 12200>>, <<4000, 12100>>,
     <<6000, 12000>>, <<8000, 11700>>, <<9200, 11600>> >>

\* indexed by conf: <<pressure altitude ft, kcas in hundredths>>
minimumV2Vmc ==
  << << <<-2000, 12700>>, <<0, 12600>>, <<1000, 12600>>, <<2000, 12500>>,
        <<3000, 12500>>, <<4000, 12400>>, <<6000, 12300>>, <<8000, 12000>>,
        <<9200, 11800>> >>,
     << <<-2000, 12700>>, <<0, 12600>>, <<1000, 12600>>, <<2000, 12500>>,
        <<3000, 12500>>, <<4000, 12400>>, <<6000, 12300>>, <<8000, 12000>>,
        <<9200, 11800>> >>,
     << <<-2000, 12600>>, <<0, 12500>>, <<1000, 12500>>, <<2000, 12400>>,
        <<3000, 12400>>, <<4000, 12300>>, <<6000, 12200>>, <<8000, 11900>>,
        <<9200, 11700>> >> >>

\* indexed by conf: <<takeoff weight kg, kcas in hundredths>>; every
\* breakpoint of the table lies at the pressure altitude -2000 ft, so the
\* lookup by (pressure altitude, weight) is the one by weight
minimumV2Vmu ==
  << << <<300000, 12700>>, <<400000, 13200>>, <<500000, 13700>>,
        <<512000, 14200>> >>,
     << <<300000, 12700>>, <<400000, 13200>>, <<500000, 13700>>,
        <<512000, 14200>> >>,
     << <<300000, 12600>>, <<400000, 13200>>, <<500000, 13700>>,
        <<512000, 14200>> >> >>

\* Math.ceil of the three minima, whole knots
minimumSpeeds(result) ==
  [minV1Vmc |-> CeilDiv(lerp1(minimumV1Vmc, result.params.pressureAlt), 100),
   minVrVmc |-> CeilDiv(lerp1(minimumVrVmc, result.params.pressureAlt), 100),
   minV2Vmc |-> CeilDiv(lerp1(minimumV2Vmc[result.inputs.conf],
                              result.params.pressureAlt), 100),
   minv2Vmu |-> CeilDiv(lerp1(minimumV2Vmu[result.inputs.conf],
                              result.inputs.tow), 100)]

\* speeds is [v1, vR, v2, error]: the corrected speeds and result.error

\* a tire rule that lowers Vr by the excess of V2 over 195
tireSpeedLimited_LoweredByExcess(speeds, min) ==
  IF speeds.v2 > 195
    THEN IF speeds.vR > 195 THEN [speeds EXCEPT !.error = "MaximumTireSpeed"]
         ELSE [speeds EXCEPT !.vR = @ - (speeds.v2 - 195),
                             !.error = IF speeds.vR - (speeds.v2 - 195) < min.minVrVmc
                                         THEN "VmcgVmcaLimits" ELSE @]
    ELSE speeds

\* a tire rule that lowers Vr to 195
tireSpeedLimited_VrAt195(speeds, min) ==
  IF speeds.v2 > 195 /\ speeds.vR > 195 THEN [speeds EXCEPT !.vR = 195]
  ELSE speeds

\* if (v2Corrected > 195) { ... }
tireSpeedLimited(speeds, min) ==
  IF speeds.v2 > 195
    THEN LET maxVr == 195 - (speeds.v2 - 195)
         IN  IF speeds.vR > 195 THEN [speeds EXCEPT !.error = "MaximumTireSpeed"]
             ELSE IF speeds.vR > maxVr
               THEN [speeds EXCEPT !.vR = maxVr,
                                   !.error = IF maxVr < min.minVrVmc
                                               THEN "VmcgVmcaLimits" ELSE @]
             ELSE speeds
    ELSE speeds

\* V1 kept at its floored value whatever Vr has become
v1BelowVr_Kept(speeds, min) == speeds

\* if (v1Corrected > vRCorrected) { ... }
v1BelowVr(speeds, min) ==
  IF speeds.v1 > speeds.vR
    THEN [speeds EXCEPT !.v1 = speeds.vR,
                        !.error = IF speeds.vR < min.minV1Vmc
                                    THEN "VmcgVmcaLimits" ELSE @]
    ELSE speeds

\* if (vRCorrected > v2Corrected) { ... }
vRBelowV2(speeds, min) ==
  IF speeds.vR > speeds.v2
    THEN [speeds EXCEPT !.vR = speeds.v2,
                        !.error = IF speeds.v2 < min.minVrVmc
                                    THEN "VmcgVmcaLimits" ELSE @]
    ELSE speeds

\* Math.round(Math.max(v, minimum)) of each speed
flooredSpeeds(result, min, v1, vR, v2) ==
  [v1 |-> RoundC(Max2(v1, 100 * min.minV1Vmc)),
   vR |-> RoundC(Max2(vR, 100 * min.minVrVmc)),
   v2 |-> RoundC(Max2(v2, Max2(100 * min.minV2Vmc, 100 * min.minv2Vmu))),
   error |-> result.error]

\* [v1Corrected, vRCorrected, v2Corrected] with result.error as the call
\* leaves it
reconcileVSpeeds(result, v1, vR, v2) ==
  v1BelowVr(tireSpeedLimited(vRBelowV2(flooredSpeeds(result, minimumSpeeds(result),
                                                     v1, vR, v2),
                                       minimumSpeeds(result)),
                             minimumSpeeds(result)),
            minimumSpeeds(result))
----------------------------------------------------------------------------
(* State machine.  A caller invokes one public operation at a time: pc is  *)
(* "idle" between calls and "returned" when op, args and ret hold the      *)
(* operation, its arguments and the value it returned.                     *)

Init ==
  /\ pc = "idle"
  /\ op = "none"
  /\ args = <<>>
  /\ ret = <<>>
  /\ vec2Cache = [calc \in Calculators |-> <<0, 0>>]
  /\ vec4Cache = [calc \in Calculators |-> <<0, 0, 0, 0>>]
  /\ resultCache = [calc \in Calculators |-> <<>>]
  /\ returned = <<>>
  /\ tasks = <<>>

\* The caller drops the returned value and is ready for the next call.
Return ==
  /\ pc = "returned"
  /\ pc' = "idle"
  /\ op' = "none"
  /\ args' = <<>>
  /\ ret' = <<>>
  /\ UNCHANGED <<statics, callers>>

(* Inputs of getCrosswindLimit: OAT in whole degrees *)
CrosswindOats == {-40, -20, -16, -15, -14, -10, 0, 15, 30}

CallGetCrosswindLimit ==
  /\ pc = "idle"
  /\ \E runwayCondition \in RunwayCondition, oat \in CrosswindOats :
       /\ op' = "getCrosswindLimit"
       /\ args' = [runwayCondition |-> runwayCondition, oat |-> oat]
       /\ ret' = getCrosswindLimit(runwayCondition, oat)
  /\ pc' = "returned"
  /\ UNCHANGED <<statics, callers>>

NextCrosswind == CallGetCrosswindLimit \/ Return

SpecCrosswind == Init /\ [][NextCrosswind]_vars

(* Inputs of the envelope checks: CG in hundredths of %MAC, weight in kg *)
EnvelopeCgs == {2800, 2900, 2950, 3100, 3150, 3400, 3575, 4000, 4300, 4500}
EnvelopeWeights ==
  {260000, 270000, 300000, 360000, 362000, 365000, 370000, 375000, 380000,
   385000, 390000, 395000, 400000, 450000, 510000, 512000}

CallCheckPerformanceEnvelope ==
  /\ pc = "idle"
  /\ \E cg \in EnvelopeCgs, weight \in EnvelopeWeights :
       /\ op' = "checkPerformanceEnvelope"
       /\ args' = [cgPercentMAC |-> cg, weightKg |-> weight]
       /\ ret' = checkPerformanceEnvelope(cg, weight)
  /\ pc' = "returned"
  /\ UNCHANGED <<statics, callers>>

CallCheckLandingEnvelope ==
  /\ pc = "idle"
  /\ \E cg \in EnvelopeCgs, weight \in EnvelopeWeights :
       /\ op' = "checkLandingEnvelope"
       /\ args' = [cgPercentMAC |-> cg, weightKg |-> weight]
       /\ ret' = checkLandingEnvelope(cg, weight)
  /\ pc' = "returned"
  /\ UNCHANGED <<statics, callers>>

NextEnvelope == CallCheckPerformanceEnvelope \/ CallCheckLandingEnvelope \/ Return

SpecEnvelope == Init /\ [][NextEnvelope]_vars

(* Inputs of calculateLandingDistances *)
LandingWeights == {280000, 300000, 350000}
LandingApproachSpeeds == {140, 158}
\* <<windDirection, windMagnitude, runwayHeading>>
LandingWinds == { <<90, 10, 90>>, <<210, 7, 90>>, <<270, 7, 90>> }
LandingAltitudes == {0, 1000}
LandingPressures == {101325, 100000}
LandingTemperatures == {1500, 2250}
LandingSlopes == {0, -150}

LandingArgs ==
  { [weight |-> w, flaps |-> f, runwayCondition |-> rc, approachSpeed |-> s,
     windDirection |-> wd[1], windMagnitude |-> wd[2],
     runwayHeading |-> wd[3], reverseThrust |-> rev,
     altitude |-> alt, temperature |-> t, slope |-> sl,
     overweightProcedure |-> ow, pressure |-> p, autoland |-> al] :
    w \in LandingWeights, f \in LandingFlapsConfig,
    rc \in LandingRunwayConditions, s \in LandingApproachSpeeds,
    wd \in LandingWinds, rev \in BOOLEAN, alt \in LandingAltitudes,
    t \in LandingTemperatures, sl \in LandingSlopes, ow \in BOOLEAN,
    p \in LandingPressures, al \in BOOLEAN }

CallCalculateLandingDistances ==
  /\ pc = "idle"
  /\ \E a \in LandingArgs :
       /\ op' = "calculateLandingDistances"
       /\ args' = a
       /\ ret' = calculateLandingDistances(a)
  /\ pc' = "returned"
  /\ UNCHANGED <<statics, callers>>

NextLanding == CallCalculateLandingDistances \/ Return

SpecLanding == Init /\ [][NextLanding]_vars


----------------------------------------------------------------------------
(* Takeoff calls *)

\* the arguments every takeoff call of the model starts from
BenignTakeoffArgs ==
  [tow |-> 305000, forwardCg |-> FALSE, conf |-> 2, tora |-> 62000, slope |-> 0,
   lineupAngle |-> 0, wind |-> 0, elevation |-> 0, qnh |-> 101325, oat |-> 1500,
   antiIce |-> "Off", packs |-> FALSE, forceToga |-> FALSE,
   runwayCondition |-> "Dry"]

TakeoffBleeds == { <<"Off", FALSE>>, <<"EngineWing", TRUE>> }

\* calls around the validation limits, several limits at a time
ValidationArgs ==
  { Merge([BenignTakeoffArgs EXCEPT !.conf = conf, !.tow = tow,
                                    !.elevation = elevation, !.oat = oat,
                                    !.wind = wind, !.slope = slope],
          cg) :
      conf \in {0, 2}, tow \in {250000, 305000, 520000},
      elevation \in {0, 9500}, oat \in {1500, 6000}, wind \in {-20, 0},
      slope \in {-250, 0},
      cg \in {<<>>, [cg |-> 2600], [cg |-> 3100], [cg |-> 4500]} }

\* valid calls on runways long enough for the limit weights to reach the
\* weights of the aeroplane: weight, configuration, wind, temperature, bleed,
\* forceToga, dry and wet
LongRunwayArgs ==
  { [BenignTakeoffArgs EXCEPT !.tow = tow, !.conf = conf, !.tora = tora,
                              !.wind = wind, !.oat = oat, !.antiIce = bleed[1],
                              !.packs = bleed[2], !.forceToga = forceToga,
                              !.runwayCondition = runwayCondition] :
      tow \in {305000, 400000, 512000}, conf \in {1, 2, 3},
      tora \in {62000, 200000}, wind \in {-10, 20}, oat \in {0, 1500, 5000},
      bleed \in TakeoffBleeds, forceToga \in BOOLEAN,
      runwayCondition \in {"Dry", "Wet"} }

\* valid calls on a runway of ordinary length and on longer ones, dry and
\* contaminated
ContaminatedArgs ==
  { [BenignTakeoffArgs EXCEPT !.tow = tow, !.conf = conf, !.tora = tora,
                              !.wind = wind, !.forceToga = forceToga,
                              !.runwayCondition = runwayCondition] :
      tow \in {305000, 400000}, conf \in {1, 2, 3},
      tora \in {3000, 62000, 200000}, wind \in {-10, 20}, forceToga \in BOOLEAN,
      runwayCondition \in {"Dry", "Contaminated6mmWater",
                           "ContaminatedCompactedSnow"} }

\* valid calls with the forward-CG correction asked for
ForwardCgArgs ==
  { [BenignTakeoffArgs EXCEPT !.forwardCg = TRUE, !.tow = tow, !.conf = conf,
                              !.tora = tora, !.wind = wind,
                              !.forceToga = forceToga] :
      tow \in {305000, 400000, 512000}, conf \in {1, 2, 3},
      tora \in {62000, 200000}, wind \in {-10, 20}, forceToga \in BOOLEAN }

\* valid calls over airfield elevation, altimeter setting, slope and line-up
EnvironmentArgs ==
  { Merge([BenignTakeoffArgs EXCEPT !.conf = conf, !.tora = tora,
                                    !.slope = slope, !.elevation = field[1],
                                    !.qnh = field[2],
                                    !.lineupAngle = lineupAngle],
          cg) :
      conf \in {1, 2, 3}, tora \in {62000, 200000}, slope \in {-100, 100},
      field \in { <<0, 101325>>, <<4000, 98000>> }, lineupAngle \in {0, 90},
      cg \in {<<>>, [cg |-> 3100]} }

\* valid calls on runways of 1500 and 2000 m, where the four limit weights
\* lie close together and different families govern at OAT and at Tref
ShortRunwayArgs ==
  { [BenignTakeoffArgs EXCEPT !.conf = conf, !.tora = tora, !.oat = oat,
                              !.wind = wind, !.slope = slope,
                              !.runwayCondition = runwayCondition] :
      conf \in {1, 3}, tora \in {1500, 2000}, oat \in {-2000, 3000},
      wind \in {5, 45}, slope \in {0, 100},
      runwayCondition \in {"Dry", "Wet"} }

\* calls that pass validation with an altimeter setting that puts the
\* pressure altitude far below the airfield elevation
HighFieldArgs ==
  { [BenignTakeoffArgs EXCEPT !.conf = conf, !.tora = tora,
                              !.elevation = 18400, !.qnh = 140000,
                              !.runwayCondition = runwayCondition] :
      conf \in {1, 2, 3}, tora \in {3000, 200000},
      runwayCondition \in {"Dry", "Wet"} }

TakeoffArgs ==
  ValidationArgs \cup LongRunwayArgs \cup ContaminatedArgs \cup ForwardCgArgs
    \cup EnvironmentArgs \cup ShortRunwayArgs \cup HighFieldArgs

CallCalculateTakeoffPerformance ==
  /\ pc = "idle"
  /\ \E calc \in Calculators, inputs \in TakeoffArgs :
       /\ args' = Merge(inputs, [calculator |-> calc])
       /\ ret' = calculateTakeoffPerformance(calc, inputs)
  /\ op' = "calculateTakeoffPerformance"
  /\ pc' = "returned"
  /\ UNCHANGED <<statics, callers>>

\* the arguments of calculateTakeoffPerformanceOptConf have no conf
OptConfArgs ==
  { Without(inputs, {"conf"}) :
      inputs \in { a \in LongRunwayArgs \cup ContaminatedArgs : a.antiIce = "Off" } }

CallCalculateTakeoffPerformanceOptConf ==
  /\ pc = "idle"
  /\ \E inputs \in OptConfArgs :
       /\ args' = Merge(inputs, [calculator |-> "a380x_takeoff"])
       /\ ret' = calculateTakeoffPerformanceOptConf(inputs)
  /\ op' = "calculateTakeoffPerformanceOptConf"
  /\ pc' = "returned"
  /\ UNCHANGED <<statics, callers>>

NextTakeoff ==
  \/ CallCalculateTakeoffPerformance
  \/ CallCalculateTakeoffPerformanceOptConf
  \/ Return

SpecTakeoff == Init /\ [][NextTakeoff]_vars

----------------------------------------------------------------------------
(* Calls one after another of a caller that keeps what it was returned.    *)
(* `returned` holds one entry per object a call returned: the call, the    *)
(* value the object had when it was returned (result) and the value it has *)
(* now (object).  The scratch vectors hold what the last lookup of the     *)
(* class stored.                                                           *)

\* number of results the caller keeps
MaxCalls == 3

\* checkInputs gets as far as the CG check and the caller gave a CG
cgCheckReached(inputs, params) ==
  /\ inputs.conf \in {1, 2, 3}
  /\ inputs.tow <= structuralMtow
  /\ params.pressureAlt <= maxPressureAlt
  /\ inputs.oat <= params.tMax
  /\ inputs.tow >= oew
  /\ Has(inputs, "cg")

\* the vector isCgWithinLimits stores into vec2Cache
cgLimitsStored(calc, tow) ==
  lerpVec(IF calc = "a380x_takeoff" THEN takeoffCgLimits ELSE takeoffCgLimits_part001,
          tow)

\* the vector a wet-runway lookup stores into vec4Cache
wetFactorsStored(aboveTvmcg, atOrBelowTvmcg, result) ==
  lerpVec((IF result.inputs.oat > result.tvmcg THEN aboveTvmcg
           ELSE atOrBelowTvmcg)[result.inputs.conf],
          result.params.headwind)

\* <<vec2Cache, vec4Cache>> of the class after checkInputs
checkedScratch(calc, inputs, params, scratch) ==
  IF cgCheckReached(inputs, params)
    THEN <<cgLimitsStored(calc, inputs.tow), scratch[2]>>
    ELSE scratch

\* <<vec2Cache, vec4Cache>> of part_001 once the MTOW is computed: the lookups
\* of calculateTvmcg and of the wet MTOW adjustment
weighedScratch(result, scratch) ==
  <<lerpVec(tvmcgFactors[result.inputs.conf], Max2(result.params.headwind, -15)),
    IF result.inputs.runwayCondition = "Wet"
      THEN wetFactorsStored(wetTowAdjustmentFactorsAboveTvmcg,
                            wetTowAdjustmentFactorsAtOrBelowTvmcg, result)
      ELSE scratch[2]>>

\* <<vec2Cache, vec4Cache>> of the class after calculateTakeoffPerformance
\* returned result, when it held scratch before: the lookups of the call in
\* the order the call makes them, each one overwriting its vector.  Only
\* isCgWithinLimits looks up a vector in a380x_takeoff.ts.
RECURSIVE scratchAfter(_, _, _, _)
scratchAfter(calc, inputs, result, scratch) ==
  IF ~Has(result, "limits") \/ calc = "a380x_takeoff"
    THEN checkedScratch(calc, inputs, result.params, scratch)
  ELSE IF result.error = "TooHeavy"
    THEN weighedScratch(result, checkedScratch(calc, inputs, result.params, scratch))
  ELSE IF inputs.forceToga
    THEN scratchAfter(calc, forceTogaInputs(inputs),
                      calculateTakeoffPerformance(calc, forceTogaInputs(inputs)),
                      weighedScratch(result,
                                     checkedScratch(calc, inputs, result.params,
                                                    scratch)))
  ELSE IF inputs.runwayCondition = "Wet" /\ scanFlexTemp(result) # <<>>
    THEN <<weighedScratch(result, scratch)[1],
           wetFactorsStored(wetFlexAdjustmentFactorsAboveTvmcg,
                            wetFlexAdjustmentFactorsAtOrBelowTvmcg, result)>>
  ELSE weighedScratch(result, checkedScratch(calc, inputs, result.params, scratch))

\* the scratch of a380x_takeoff.ts after the calls of
\* calculateTakeoffPerformanceOptConf for configurations 1 .. conf
RECURSIVE confScratch(_, _, _)
confScratch(inputs, conf, scratch) ==
  IF conf = 0 THEN scratch
  ELSE checkedScratch("a380x_takeoff", Merge(inputs, [conf |-> conf]),
                      takeoffParams("a380x_takeoff", Merge(inputs, [conf |-> conf])),
                      confScratch(inputs, conf - 1, scratch))

\* a result object filled in through `out` when the caller hands one in
resultObject_Out(out, objects) == IF out = 0 THEN Len(objects) + 1 ELSE out

\* the object a call fills in and returns, as an index into the objects
\* returned so far; out is the index of the object handed in, 0 for none: `const result = {}` and JSON.parse(...) make a new object
\* whatever `out` is
resultObject(out, objects) == Len(objects) + 1

\* the objects after a call stored its result into object number target
storeResult(objects, target, entry) ==
  IF target > Len(objects) THEN Append(objects, entry)
  ELSE Append([objects EXCEPT ![target].object = entry.result], entry)

scratchStored(calc, scratch) ==
  /\ vec2Cache' = [vec2Cache EXCEPT ![calc] = scratch[1]]
  /\ vec4Cache' = [vec4Cache EXCEPT ![calc] = scratch[2]]

resultKept(operation, calc, inputs, out, result) ==
  /\ op' = operation
  /\ args' = Merge(inputs, [calculator |-> calc])
  /\ ret' = result
  /\ returned' = storeResult(returned, resultObject(out, returned),
                             [op |-> operation, calculator |-> calc,
                              inputs |-> inputs, result |-> result,
                              object |-> result])

\* calls that differ in what they look up: configuration, wind, runway
\* condition, forceToga, and a CG or none
SequenceArgs ==
  { [BenignTakeoffArgs EXCEPT !.tora = 200000, !.runwayCondition = "Wet"],
    [BenignTakeoffArgs EXCEPT !.tora = 200000, !.runwayCondition = "Wet",
                              !.conf = 1, !.forceToga = TRUE, !.wind = 20],
    Merge([BenignTakeoffArgs EXCEPT !.tora = 200000], [cg |-> 3100]) }

OptConfSequenceArgs ==
  { Without(a, {"conf"}) : a \in { s \in SequenceArgs : Has(s, "cg") } }

takeoffResultKept(calc, inputs, out, result) ==
  /\ resultKept("calculateTakeoffPerformance", calc, inputs, out, result)
  /\ scratchStored(calc, scratchAfter(calc, inputs, result,
                                      <<vec2Cache[calc], vec4Cache[calc]>>))

CallKeepingTakeoffPerformance ==
  /\ pc = "idle"
  /\ Len(returned) < MaxCalls
  /\ \E calc \in Calculators, inputs \in SequenceArgs,
        out \in {0, Len(returned)} :
       takeoffResultKept(calc, inputs, out,
                         calculateTakeoffPerformance(calc, inputs))
  /\ pc' = "returned"
  /\ UNCHANGED <<resultCache, tasks>>

CallKeepingTakeoffPerformanceOptConf ==
  /\ pc = "idle"
  /\ Len(returned) < MaxCalls
  /\ \E inputs \in OptConfSequenceArgs,
        out \in {0, Len(returned)} :
       /\ resultKept("calculateTakeoffPerformanceOptConf", "a380x_takeoff", inputs,
                     out, calculateTakeoffPerformanceOptConf(inputs))
       /\ scratchStored("a380x_takeoff",
                        confScratch(inputs, 3, <<vec2Cache["a380x_takeoff"],
                                                 vec4Cache["a380x_takeoff"]>>))
  /\ pc' = "returned"
  /\ UNCHANGED <<resultCache, tasks>>

NextSequence ==
  \/ CallKeepingTakeoffPerformance
  \/ CallKeepingTakeoffPerformanceOptConf
  \/ Return

SpecSequence == Init /\ [][NextSequence]_vars

----------------------------------------------------------------------------
(* Calls under way at the same time, their steps interleaved.  A task is   *)
(* one call of isCgWithinLimits, or the calculateTvmcg step of a           *)
(* calculateTakeoffPerformance call of part_001: each looks a vector up    *)
(* into vec2Cache of its class and then reads the components through the   *)
(* reference the lookup returned, which is vec2Cache itself.               *)

\* number of calls under way at once
MaxTasks == 2

TaskCalls ==
  { [op |-> "isCgWithinLimits", calculator |-> calc, args |-> a] :
      calc \in Calculators,
      a \in { [cg |-> 2900, tow |-> 305000], [cg |-> 4250, tow |-> 512000] } }
  \cup
  { [op |-> "calculateTvmcg", calculator |-> "part_001", args |-> a] :
      a \in { [BenignTakeoffArgs EXCEPT !.tora = 3000],
              [BenignTakeoffArgs EXCEPT !.tora = 3000, !.conf = 1, !.wind = 20] } }

StartTask ==
  /\ Len(tasks) < MaxTasks
  /\ \E call \in TaskCalls :
       tasks' = Append(tasks, Merge(call, [at |-> "called", result |-> Undef]))
  /\ UNCHANGED <<pc, op, args, ret, statics, returned>>

\* takeoffCgLimits.get(vec2Cache, tow)
LookupCgLimits ==
  \E i \in DOMAIN tasks :
    /\ tasks[i].op = "isCgWithinLimits"
    /\ tasks[i].at = "called"
    /\ vec2Cache' = [vec2Cache EXCEPT ![tasks[i].calculator] =
                       cgLimitsStored(tasks[i].calculator, tasks[i].args.tow)]
    /\ tasks' = [tasks EXCEPT ![i].at = "looked up"]
    /\ UNCHANGED <<pc, op, args, ret, vec4Cache, resultCache, returned>>

\* return cg >= cgLimits[0] && cg <= cgLimits[1]
CompareCgLimits ==
  \E i \in DOMAIN tasks :
    /\ tasks[i].op = "isCgWithinLimits"
    /\ tasks[i].at = "looked up"
    /\ tasks' = [tasks EXCEPT ![i].at = "returned",
                              ![i].result = cgWithin(vec2Cache[tasks[i].calculator],
                                                     tasks[i].args.cg)]
    /\ UNCHANGED <<pc, op, args, ret, statics, returned>>

\* factors.get(vec2Cache, Math.max(params.headwind, -15))
LookupTvmcgFactors ==
  \E i \in DOMAIN tasks :
    /\ tasks[i].op = "calculateTvmcg"
    /\ tasks[i].at = "called"
    /\ vec2Cache' = [vec2Cache EXCEPT ![tasks[i].calculator] =
                       lerpVec(tvmcgFactors[tasks[i].args.conf],
                               Max2(takeoffParams(tasks[i].calculator,
                                                  tasks[i].args).headwind, -15))]
    /\ tasks' = [tasks EXCEPT ![i].at = "looked up"]
    /\ UNCHANGED <<pc, op, args, ret, vec4Cache, resultCache, returned>>

\* return factor1 * (params.adjustedTora - params.pressureAlt / 10) + factor2
ReadTvmcgFactors ==
  \E i \in DOMAIN tasks :
    /\ tasks[i].op = "calculateTvmcg"
    /\ tasks[i].at = "looked up"
    /\ tasks' = [tasks EXCEPT ![i].at = "returned",
                              ![i].result =
                                tvmcgOf(vec2Cache[tasks[i].calculator],
                                        takeoffParams(tasks[i].calculator,
                                                      tasks[i].args))]
    /\ UNCHANGED <<pc, op, args, ret, statics, returned>>

\* the callers take their results once every call has returned
JoinTasks ==
  /\ tasks # <<>>
  /\ \A i \in DOMAIN tasks : tasks[i].at = "returned"
  /\ tasks' = <<>>
  /\ UNCHANGED <<pc, op, args, ret, statics, returned>>

NextScratch ==
  \/ StartTask
  \/ LookupCgLimits
  \/ CompareCgLimits
  \/ LookupTvmcgFactors
  \/ ReadTvmcgFactors
  \/ JoinTasks

SpecScratch == Init /\ [][NextScratch]_vars

(* getLimitingFactor over limits that tie *)

TemperatureAnchors == {"oatLimit", "tRefLimit", "tMaxLimit", "tFlexMaxLimit"}

\* limit weights in kg, few enough for two or more families to share one
TiedLimitWeights == {79000, 80000, 81000}

CallGetLimitingFactor ==
  /\ pc = "idle"
  /\ \E temp \in TemperatureAnchors,
        runway, secondSegment, brakeEnergy, vmcg \in TiedLimitWeights :
       /\ args' = [temp |-> temp,
                   limits |-> [Runway |-> (temp :> runway),
                               SecondSegment |-> (temp :> secondSegment),
                               BrakeEnergy |-> (temp :> brakeEnergy),
                               Vmcg |-> (temp :> vmcg)]]
       /\ ret' = getLimitingFactor(temp, args')
  /\ pc' = "returned"
  /\ op' = "getLimitingFactor"
  /\ UNCHANGED <<statics, callers>>

NextLimitingFactor ==
  \/ CallGetLimitingFactor
  \/ Return

SpecLimitingFactor == Init /\ [][NextLimitingFactor]_vars

(* reconcileVSpeeds applied to speeds around its floors and the tire limit *)

\* speeds handed to reconcileVSpeeds, hundredths of a knot
ReconciledSpeedInputs == {11000, 12050, 15000, 19450, 19600, 20000, 27000}

ReconcileResults ==
  { [inputs |-> [conf |-> conf, tow |-> tow],
     params |-> [pressureAlt |-> pressureAlt], error |-> "None"] :
      conf \in {1, 3}, tow \in {300000, 450000, 512000},
      pressureAlt \in {0, 4500, 9200} }

CallReconcileVSpeeds ==
  /\ pc = "idle"
  /\ \E result \in ReconcileResults, v1, vR, v2 \in ReconciledSpeedInputs :
       /\ args' = [result |-> result, v1 |-> v1, vR |-> vR, v2 |-> v2]
       /\ ret' = reconcileVSpeeds(result, v1, vR, v2)
  /\ pc' = "returned"
  /\ op' = "reconcileVSpeeds"
  /\ UNCHANGED <<statics, callers>>

\* the reconciled speeds are handed to reconcileVSpeeds once more
CallReconcileVSpeedsAgain ==
  /\ pc = "returned"
  /\ op = "reconcileVSpeeds"
  /\ args' = [result |-> [args.result EXCEPT !.error = ret.error],
              v1 |-> 100 * ret.v1, vR |-> 100 * ret.vR, v2 |-> 100 * ret.v2,
              first |-> ret]
  /\ ret' = reconcileVSpeeds([args.result EXCEPT !.error = ret.error],
                             100 * ret.v1, 100 * ret.vR, 100 * ret.v2)
  /\ pc' = "returned"
  /\ op' = "reconcileVSpeeds again"
  /\ UNCHANGED <<statics, callers>>

NextReconcile ==
  \/ CallReconcileVSpeeds
  \/ CallReconcileVSpeedsAgain
  \/ Return

SpecReconcile == Init /\ [][NextReconcile]_vars

(* getInterpolatedVlsTableValue over masses on, between and outside the
   breakpoints *)

VlsMassSteps == 101

\* masses in kg, every 2750 kg from 242500 kg: the step divides the breakpoint
\* spacing of 30250 kg, so that 270000, 300250, ..., 512000 are all drawn
VlsMasses == { 242500 + 2750 * k : k \in 0..VlsMassSteps }

VlsSpeedTables == {CONF_FULL_VLS, CONF3_VLS}

CallGetInterpolatedVlsTableValue ==
  /\ pc = "idle"
  /\ \E mass \in VlsMasses, vlsSpeedTable \in VlsSpeedTables :
       /\ args' = [mass |-> mass, vlsSpeedTable |-> vlsSpeedTable]
       /\ ret' = getInterpolatedVlsTableValue(mass, vlsSpeedTable)
  /\ pc' = "returned"
  /\ op' = "getInterpolatedVlsTableValue"
  /\ UNCHANGED <<statics, callers>>

NextVls ==
  \/ CallGetInterpolatedVlsTableValue
  \/ Return

SpecVls == Init /\ [][NextVls]_vars
----------------------------------------------------------------------------
(* Properties of getCrosswindLimit *)

CrosswindReturned == pc = "returned" /\ op = "getCrosswindLimit"

\* C8: getCrosswindLimit returns 35 for Dry and Wet, 29 for CompactedSnow
\* when oat <= -15 and 25 when oat > -15, 25 for every other snow condition
\* and 20 for every water and slush condition; only CompactedSnow depends on
\* oat.
C8_CrosswindLimitTable ==
  CrosswindReturned =>
    /\ args.runwayCondition \in {"Dry", "Wet"} => ret = 35
    /\ (args.runwayCondition = "ContaminatedCompactedSnow" /\ args.oat <= -15)
         => ret = 29
    /\ (args.runwayCondition = "ContaminatedCompactedSnow" /\ args.oat > -15)
         => ret = 25
    /\ args.runwayCondition \in
         {"Contaminated10mmDrySnow", "Contaminated100mmDrySnow",
          "Contaminated5mmWetSnow", "Contaminated15mmWetSnow",
          "Contaminated30mmWetSnow"} => ret = 25
    /\ args.runwayCondition \in
         {"Contaminated6mmWater", "Contaminated13mmWater",
          "Contaminated6mmSlush", "Contaminated13mmSlush"} => ret = 20

\* C8 witness: compacted snow at exactly -15 degrees gives 29
C8_Witness ==
  /\ CrosswindReturned
  /\ args.runwayCondition = "ContaminatedCompactedSnow"
  /\ args.oat = -15
  /\ ret = 29

----------------------------------------------------------------------------
(* Properties of checkPerformanceEnvelope *)

EnvelopeReturned == pc = "returned" /\ op = "checkPerformanceEnvelope"

\* The three envelopes are convex, so the open interior of each is the
\* intersection of the open half-planes of its sides: between the CG walls,
\* above the floor, below the ceiling and below the slanted sides.
\* below(x, y, p, q): (x, y) is strictly below the line through p and q,
\* p left of q.
StrictlyBelow(x, y, p, q) == (y - p[2]) * (q[1] - p[1]) < (q[2] - p[2]) * (x - p[1])
StrictlyAbove(x, y, p, q) == (y - p[2]) * (q[1] - p[1]) > (q[2] - p[2]) * (x - p[1])

InsideBox(x, y, top) == 2900 < x /\ x < 4300 /\ 270000 < y /\ y < top
OutsideBox(x, y, top) == x < 2900 \/ x > 4300 \/ y < 270000 \/ y > top

StrictlyInsideMtow(x, y) ==
  InsideBox(x, y, 510000) /\ StrictlyBelow(x, y, <<2900, 375000>>, <<3575, 510000>>)
StrictlyOutsideMtow(x, y) ==
  OutsideBox(x, y, 510000) \/ StrictlyAbove(x, y, <<2900, 375000>>, <<3575, 510000>>)

StrictlyInsideMzfw(x, y) ==
  InsideBox(x, y, 365000) /\ StrictlyBelow(x, y, <<2900, 360000>>, <<3150, 365000>>)
StrictlyOutsideMzfw(x, y) ==
  OutsideBox(x, y, 365000) \/ StrictlyAbove(x, y, <<2900, 360000>>, <<3150, 365000>>)

StrictlyInsideMlw(x, y) ==
  /\ InsideBox(x, y, 395000)
  /\ StrictlyBelow(x, y, <<2900, 375000>>, <<2975, 385000>>)
  /\ StrictlyBelow(x, y, <<2975, 385000>>, <<3150, 395000>>)
StrictlyOutsideMlw(x, y) ==
  \/ OutsideBox(x, y, 395000)
  \/ StrictlyAbove(x, y, <<2900, 375000>>, <<2975, 385000>>)
  \/ StrictlyAbove(x, y, <<2975, 385000>>, <<3150, 395000>>)

Listed(label, failing) == \E k \in 1..Len(failing) : failing[k] = label

\* failing lists each polygon at most once, in the order MTOW, MZFW, MLW
FailingWellFormed(failing) ==
  failing \in { <<>>, <<"MTOW">>, <<"MZFW">>, <<"MLW">>, <<"MTOW", "MZFW">>,
                <<"MTOW", "MLW">>, <<"MZFW", "MLW">>,
                <<"MTOW", "MZFW", "MLW">> }

\* ok and failing agree with the geometry of the three polygons
EnvelopeContract ==
  LET x == args.cgPercentMAC
      y == args.weightKg
  IN  /\ FailingWellFormed(ret.failing)
      /\ ret.ok <=> ret.failing = <<>>
      /\ StrictlyInsideMtow(x, y) => ~Listed("MTOW", ret.failing)
      /\ StrictlyOutsideMtow(x, y) => Listed("MTOW", ret.failing)
      /\ StrictlyInsideMzfw(x, y) => ~Listed("MZFW", ret.failing)
      /\ StrictlyOutsideMzfw(x, y) => Listed("MZFW", ret.failing)
      /\ StrictlyInsideMlw(x, y) => ~Listed("MLW", ret.failing)
      /\ StrictlyOutsideMlw(x, y) => Listed("MLW", ret.failing)

\* C10 as stated: ok exactly when the point is inside all three polygons,
\* failing lists exactly the polygons that do not contain it; cg = 31,
\* weight = 370000 is ok with no failing entry, and cg = 45,
\* weight = 370000 reports all three as failing.
C10_AsStated ==
  EnvelopeReturned =>
    /\ EnvelopeContract
    /\ (args.cgPercentMAC = 3100 /\ args.weightKg = 370000)
         => (ret.ok /\ ret.failing = <<>>)
    /\ (args.cgPercentMAC = 4500 /\ args.weightKg = 370000)
         => ret.failing = <<"MTOW", "MZFW", "MLW">>

\* C10 (amended): ok exactly when the point is inside all three polygons,
\* failing lists exactly the polygons that do not contain it, in the order
\* MTOW, MZFW, MLW; cg = 31, weight = 370000 lies above the MZFW polygon
\* and is reported not ok with failing = [MZFW]; cg = 45, weight = 370000
\* reports all three as failing.
C10_EnvelopeCheck ==
  EnvelopeReturned =>
    /\ EnvelopeContract
    /\ (args.cgPercentMAC = 3100 /\ args.weightKg = 370000)
         => (~ret.ok /\ ret.failing = <<"MZFW">>)
    /\ (args.cgPercentMAC = 4500 /\ args.weightKg = 370000)
         => (~ret.ok /\ ret.failing = <<"MTOW", "MZFW", "MLW">>)

\* C10 witness: the point cg = 31, weight = 370000 has been checked: inside
\* the MTOW and MLW polygons, above the MZFW polygon
C10_Witness ==
  /\ EnvelopeReturned
  /\ args.cgPercentMAC = 3100
  /\ args.weightKg = 370000
  /\ StrictlyInsideMtow(3100, 370000)
  /\ StrictlyInsideMlw(3100, 370000)
  /\ StrictlyOutsideMzfw(3100, 370000)
  /\ ret.failing = <<"MZFW">>

----------------------------------------------------------------------------
(* Properties of calculateLandingDistances *)

LandingReturned == pc = "returned" /\ op = "calculateLandingDistances"

\* every correction term of the sum is zero: the sum is refDistance
AllCorrectionsZero(a, autobrakeMode) ==
  requiredLandingDistanceSum(a, autobrakeMode)
    = 100 * runwayConditionLandingData[a.runwayCondition][autobrakeMode][a.flaps].refDistance

\* dist (hundredths of a metre) is exactly 1.15 times the sum sumC
\* (hundredths of a metre)
ExactMargin(dist, sumC) == 100 * dist = 115 * sumC

\* dist is 1.15 times a whole number of metres n, and n is the sum sumC
\* rounded to the nearest metre (halves upward)
MarginOfRounded(dist, sumC) ==
  /\ dist % 115 = 0
  /\ 100 * (dist \div 115) - 50 <= sumC
  /\ sumC < 100 * (dist \div 115) + 50

\* round(refDistance * 1.15), in hundredths of a metre
RoundedMargin(a, autobrakeMode) ==
  100 * RoundC(115 * runwayConditionLandingData[a.runwayCondition][autobrakeMode][a.flaps].refDistance)

\* C9 as stated: each of the three distances equals exactly 1.15 times the
\* unmargined sum refDistance + corrections of its autobrake mode; with all
\* corrections zero it equals round(refDistance * 1.15).
C9_AsStated ==
  LandingReturned =>
    /\ ExactMargin(ret.maxAutobrakeDist, requiredLandingDistanceSum(args, "Max"))
    /\ ExactMargin(ret.mediumAutobrakeDist, requiredLandingDistanceSum(args, "Medium"))
    /\ ExactMargin(ret.lowAutobrakeDist, requiredLandingDistanceSum(args, "Low"))
    /\ AllCorrectionsZero(args, "Max")
         => ret.maxAutobrakeDist = RoundedMargin(args, "Max")
    /\ AllCorrectionsZero(args, "Medium")
         => ret.mediumAutobrakeDist = RoundedMargin(args, "Medium")
    /\ AllCorrectionsZero(args, "Low")
         => ret.lowAutobrakeDist = RoundedMargin(args, "Low")

\* C9 (amended): each of the three distances equals 1.15 times the
\* unmargined sum refDistance + corrections of its autobrake mode after that
\* sum is rounded to the nearest metre; with all corrections zero it equals
\* 1.15 * refDistance, which is round(refDistance * 1.15).
C9_LandingDistances ==
  LandingReturned =>
    /\ MarginOfRounded(ret.maxAutobrakeDist, requiredLandingDistanceSum(args, "Max"))
    /\ MarginOfRounded(ret.mediumAutobrakeDist, requiredLandingDistanceSum(args, "Medium"))
    /\ MarginOfRounded(ret.lowAutobrakeDist, requiredLandingDistanceSum(args, "Low"))
    /\ AllCorrectionsZero(args, "Max")
         => ret.maxAutobrakeDist = RoundedMargin(args, "Max")
    /\ AllCorrectionsZero(args, "Medium")
         => ret.mediumAutobrakeDist = RoundedMargin(args, "Medium")
    /\ AllCorrectionsZero(args, "Low")
         => ret.lowAutobrakeDist = RoundedMargin(args, "Low")

\* C9 witness: a call whose max-autobrake sum has a fraction of at least
\* half a metre, so that rounding changes it
C9_Witness ==
  /\ LandingReturned
  /\ requiredLandingDistanceSum(args, "Max") % 100 >= 50
  /\ ret.maxAutobrakeDist % 115 = 0

\* a call with all corrections zero has been made
C9_WitnessZero ==
  /\ LandingReturned
  /\ AllCorrectionsZero(args, "Max")
  /\ args.weight = 300000

----------------------------------------------------------------------------
(* Takeoff claims *)

TakeoffReturned == pc = "returned" /\ op = "calculateTakeoffPerformance"

\* the arguments of the returned call, without its receiver
Inputs == Without(args, {"calculator"})

\* the lower CG limit of the calculator's takeoffCgLimits, which is the same
\* at every weight; the upper one is 43 %MAC in both
CgLowerLimit == IF args.calculator = "a380x_takeoff" THEN 2300 ELSE 2900

\* the error codes of the conditions the arguments fail
FailedValidations ==
  (IF args.conf \notin {1, 2, 3} THEN {"InvalidData"} ELSE {})
    \cup (IF args.tow > 512000 THEN {"StructuralMtow"} ELSE {})
    \cup (IF ret.params.pressureAlt > 9200 THEN {"MaximumPressureAlt"} ELSE {})
    \cup (IF args.oat > ret.params.tMax THEN {"MaximumTemperature"} ELSE {})
    \cup (IF args.tow < 300007 THEN {"OperatingEmptyWeight"} ELSE {})
    \cup (IF Has(args, "cg") /\ (args.cg < CgLowerLimit \/ args.cg > 4300)
            THEN {"CgOutOfLimits"} ELSE {})
    \cup (IF args.wind < -15 THEN {"MaximumTailwind"} ELSE {})
    \cup (IF Abs(args.slope) > 200 THEN {"MaximumRunwaySlope"} ELSE {})

InputsValid == FailedValidations = {}

ComputedFields ==
  {"limits", "oatLimitingFactor", "tRefLimitingFactor", "tMaxLimitingFactor",
   "tFlexMaxLimitingFactor", "mtow", "flex", "v1", "vR", "v2"}

\* C1: calculateTakeoffPerformance returns error None only if every
\* validation condition holds (conf 1..3, oew <= tow <= structuralMtow,
\* pressureAlt <= maxPressureAlt, oat <= tMax, wind >= -maxTailwind,
\* |slope| <= 2, a supplied CG within the limits); when a condition fails the
\* error is the code of a failed condition and limits, the four limiting
\* factors, mtow, flex and V1/Vr/V2 are not computed.
C1_ValidationShortCircuits ==
  TakeoffReturned =>
    /\ ret.error = "None" => InputsValid
    /\ ~InputsValid =>
         /\ ret.error \in FailedValidations
         /\ DOMAIN ret \cap ComputedFields = {}

C1_Witness ==
  /\ TakeoffReturned
  /\ FailedValidations = {"OperatingEmptyWeight", "CgOutOfLimits"}
  /\ ret.error = "OperatingEmptyWeight"
  /\ ~Has(ret, "limits")

\* the MTOW the weight check compares with TOW: the runway-condition MTOW of
\* the returned limits plus the forward-CG addition
AdjustedMtow ==
  LET conditioned ==
        runwayConditionMtow(args.calculator, ret,
                            ret.limits[ret.tRefLimitingFactor].oatLimit)[1]
  IN  IF args.forwardCg /\ ret.oatLimitingFactor \in {"Runway", "Vmcg"}
        THEN forwardCgCorrectedMtow(args.conf, conditioned)
        ELSE conditioned

C2_WitnessEqual ==
  /\ TakeoffReturned
  /\ InputsValid
  /\ AdjustedMtow = args.tow
  /\ ret.error = "None"

\* C3: every result of calculateTakeoffPerformance with error None reports
\* oew <= mtow <= structuralMtow and mtow >= tow.
C3_AsStated ==
  (TakeoffReturned /\ ret.error = "None") =>
    /\ oew <= ret.mtow
    /\ ret.mtow <= structuralMtow
    /\ ret.mtow >= args.tow

\* C4: every result of calculateTakeoffPerformance with error None has
\* V1 <= Vr <= V2, the speeds copied from the forceToga re-entry included
\* (a380x_takeoff.ts, the calculator whose V-speed code is in the source).
C4_VSpeedOrder ==
  (TakeoffReturned /\ args.calculator = "a380x_takeoff" /\ ret.error = "None") =>
    /\ {"v1", "vR", "v2"} \subseteq DOMAIN ret
    /\ ret.v1 <= ret.vR
    /\ ret.vR <= ret.v2

C4_Witness ==
  /\ TakeoffReturned
  /\ args.calculator = "a380x_takeoff"
  /\ args.forceToga
  /\ ret.error = "None"
  /\ ret.v1 < ret.vR
  /\ ret.vR < ret.v2

\* C5: a result has a flex temperature only if the runway is Dry or Wet,
\* forceToga is false, TOW is strictly below the tRefLimit of the factor
\* governing at tRef, and the flex is strictly above OAT.
C5_FlexOnlyIf ==
  (TakeoffReturned /\ Has(ret, "flex")) =>
    /\ args.runwayCondition \in {"Dry", "Wet"}
    /\ ~args.forceToga
    /\ args.tow < ret.limits[ret.tRefLimitingFactor].tRefLimit
    /\ ret.flex > args.oat

C5_Witness ==
  /\ TakeoffReturned
  /\ Has(ret, "flex")
  /\ args.runwayCondition = "Wet"
  /\ args.oat = 5000
  /\ ret.flex > args.oat

\* a dry or wet call without forceToga whose TOW is below the tRefLimit and
\* which still gets no flex: the flex found did not exceed OAT
C5_WitnessNoFlex ==
  /\ TakeoffReturned
  /\ ret.error = "None"
  /\ ~Has(ret, "flex")
  /\ args.runwayCondition \in {"Dry", "Wet"}
  /\ ~args.forceToga
  /\ args.tow < ret.limits[ret.tRefLimitingFactor].tRefLimit
  /\ args.oat = 5000

\* V1, Vr, V2 of a result, as far as it has them
Speeds(r) == [k \in {"v1", "vR", "v2"} \cap DOMAIN r |-> r[k]]

\* the same call with wind = -15 and forceToga = false
TailwindCall ==
  calculateTakeoffPerformance(args.calculator,
                              [Inputs EXCEPT !.wind = -15, !.forceToga = FALSE])

\* the speed-side forward-CG correction of the returned call
SpeedCorrection ==
  /\ args.forwardCg
  /\ ret.oatLimitingFactor \in {"Runway", "Vmcg"}
  /\ runwayConditionMtow(args.calculator, ret,
                         ret.limits[ret.tRefLimitingFactor].oatLimit)[1]
       <= forwardCgSpeedThreshold(args.calculator)

\* C6: a forceToga call that passes validation and the weight check returns
\* the V1, Vr, V2 of the same call with wind = -15 and forceToga = false when
\* that call returns error None, and otherwise the speeds of the normal
\* V-speed computation with the actual wind; either way it has no flex and
\* its inputs echo the original wind and forceToga = true.
C6_ForceToga ==
  (TakeoffReturned /\ args.forceToga /\ InputsValid /\ ret.error # "TooHeavy") =>
    /\ IF TailwindCall.error = "None"
         THEN Speeds(ret) = Speeds(TailwindCall)
         ELSE Speeds(ret) = Speeds(calculateVSpeeds(args.calculator, ret,
                                                    SpeedCorrection, ret.tvmcg))
    /\ ~Has(ret, "flex")
    /\ ret.inputs = Inputs
    /\ ret.inputs.wind = args.wind
    /\ ret.inputs.forceToga

C6_Witness ==
  /\ TakeoffReturned
  /\ args.forceToga
  /\ args.calculator = "part_001"
  /\ args.wind = 20
  /\ ret.error = "None"
  /\ TailwindCall.error = "None"
  /\ Speeds(ret) = Speeds(TailwindCall)
  /\ DOMAIN Speeds(ret) = {"v1", "vR", "v2"}

\* the re-entry fails (a contaminated runway below the minimum corrected
\* weight) and the speeds are computed with the actual wind
C6_WitnessOtherwise ==
  /\ TakeoffReturned
  /\ args.forceToga
  /\ args.calculator = "part_001"
  /\ InputsValid
  /\ ret.error = "TooLight"
  /\ TailwindCall.error # "None"
  /\ DOMAIN Speeds(ret) = {"v1", "vR", "v2"}

OptConfReturned == pc = "returned" /\ op = "calculateTakeoffPerformanceOptConf"

\* the result of calculateTakeoffPerformance for the arguments of the
\* returned OptConf call and a configuration
ConfResult(conf) ==
  calculateTakeoffPerformance("a380x_takeoff", Merge(Inputs, [conf |-> conf]))

\* a's flex is at least b's, an absent flex ranking below every flex
FlexAtLeast(a, b) == ~Has(b, "flex") \/ (Has(a, "flex") /\ a.flex >= b.flex)

\* C7: calculateTakeoffPerformanceOptConf returns a copy of a conf 1..3
\* result with error None whose flex is at least that of every other result
\* with error None (an absent flex below every flex) and whose V1 is the
\* lowest among those of equal flex; with no such result it returns the
\* conf 3 result.
C7_OptConf ==
  OptConfReturned =>
    LET successful == {c \in 1..3 : ConfResult(c).error = "None"}
    IN  IF successful = {} THEN ret = ConfResult(3)
        ELSE \E c \in successful :
               /\ ret = ConfResult(c)
               /\ \A d \in successful :
                    /\ FlexAtLeast(ConfResult(c), ConfResult(d))
                    /\ FlexAtLeast(ConfResult(d), ConfResult(c)) =>
                         ConfResult(c).v1 <= ConfResult(d).v1

C7_Witness ==
  /\ OptConfReturned
  /\ Has(ret, "flex")
  /\ \E d \in 1..3 : /\ ConfResult(d).error = "None"
                     /\ ~FlexAtLeast(ConfResult(d), ret)

\* no configuration succeeds and the conf 3 result comes back
C7_WitnessNone ==
  /\ OptConfReturned
  /\ \A c \in 1..3 : ConfResult(c).error # "None"
  /\ ret.error = "TooHeavy"
  /\ ret.inputs.conf = 3

----------------------------------------------------------------------------
(* Claims on calls in sequence: statics and returned objects *)

KeptTakeoffResults ==
  { i \in DOMAIN returned : returned[i].op = "calculateTakeoffPerformance" }

\* C11: the result of calculateTakeoffPerformance depends only on its
\* arguments: whatever calls were made before (forceToga re-entries and
\* calculateTakeoffPerformanceOptConf among them), two calls of the same
\* calculator with the same arguments return the same result, and every
\* object a call returned still holds the value it was returned with.
C11_ResultDependsOnArgumentsOnly ==
  /\ \A i, j \in KeptTakeoffResults :
       returned[i].calculator = returned[j].calculator
         /\ returned[i].inputs = returned[j].inputs
       => returned[i].result = returned[j].result
  /\ \A i \in DOMAIN returned : returned[i].object = returned[i].result

\* the same call made twice, with a forceToga call in another configuration
\* in between that left other vectors in both scratch vectors
C11_Witness ==
  /\ Len(returned) = 3
  /\ returned[1].op = "calculateTakeoffPerformance"
  /\ returned[3].op = "calculateTakeoffPerformance"
  /\ returned[1].calculator = "part_001"
  /\ returned[3].calculator = "part_001"
  /\ returned[1].inputs = returned[3].inputs
  /\ returned[2].calculator = "part_001"
  /\ returned[2].inputs.forceToga
  /\ returned[1].inputs.runwayCondition = "Wet"
  /\ returned[1].inputs.conf # returned[2].inputs.conf
  /\ returned[1].result.error = "None"
  /\ pc = "returned"
  /\ ret = returned[3].result

----------------------------------------------------------------------------
(* Claims on calls under way at the same time *)

\* what the call of a task returns when no other call is under way
ResultAlone(task) ==
  IF task.op = "isCgWithinLimits"
    THEN isCgWithinLimits(task.calculator, task.args.cg, task.args.tow)
    ELSE calculateTvmcg(task.calculator, task.args,
                        takeoffParams(task.calculator, task.args))

----------------------------------------------------------------------------
(* Claims on the MTOW: runway condition, limiting factor, monotonicity *)

LimitingFactors == <<"Runway", "SecondSegment", "BrakeEnergy", "Vmcg">>

\* the call got past checkInputs: the limit weights are stored
LimitsStored == TakeoffReturned /\ Has(ret, "limits")

\* the minimum over the four families of the limit named field, NaN if one is
MinLimit(r, field) ==
  IF \E i \in 1..4 : IsNaN(r.limits[LimitingFactors[i]][field]) THEN NaN
  ELSE CHOOSE w \in { r.limits[LimitingFactors[i]][field] : i \in 1..4 } :
         \A i \in 1..4 : w <= r.limits[LimitingFactors[i]][field]

\* dry MTOW - weightCorrection[condition][conf](adjustedTora)
CorrectedWeight(r, dryMtow) ==
  dryMtow - lerp1(weightCorrectionContaminated[r.inputs.runwayCondition][r.inputs.conf],
                  r.params.adjustedTora)

\* C13: TooLight is returned only for a contaminated runway condition, never
\* for Dry or Wet, and only when the corrected weight, the dry MTOW minus the
\* weight correction of the condition and configuration at the adjusted TORA,
\* is below the minimum corrected weight of the condition and configuration.
\* The dry MTOW is taken both as the code takes it (the OAT limit of the
\* factor governing at Tref) and as the least OAT limit.
C13_TooLightOnlyIf ==
  TakeoffReturned /\ ret.error = "TooLight" =>
    /\ isContaminated(args.runwayCondition)
    /\ CorrectedWeight(ret, ret.limits[ret.tRefLimitingFactor].oatLimit)
         < minCorrectedTowContaminated[args.runwayCondition][args.conf]
    /\ CorrectedWeight(ret, MinLimit(ret, "oatLimit"))
         < minCorrectedTowContaminated[args.runwayCondition][args.conf]

C13_Witness ==
  /\ TakeoffReturned
  /\ ret.error = "TooLight"
  /\ args.runwayCondition = "ContaminatedCompactedSnow"

\* a contaminated runway whose corrected weight reaches the minimum
C13_WitnessNotTooLight ==
  /\ LimitsStored
  /\ isContaminated(args.runwayCondition)
  /\ args.calculator = "part_001"
  /\ ret.error = "None"

\* the MTOW reported for other arguments of the same calculator, compared with
\* the one returned: TRUE when the other call does not pass validation
MtowNotBelow(other) == Has(other, "limits") => NGe(other.mtow, ret.mtow)

MtowNotAbove(other) == Has(other, "limits") => NLe(other.mtow, ret.mtow)

\* C14: among calls that pass validation and differ in one argument only, the
\* reported MTOW does not decrease with a longer TORA (here 500 m more), does
\* not increase with a higher OAT (10 degrees more), and does not decrease
\* with more headwind or less tailwind (5 kt more).
C14_AsStated ==
  LimitsStored =>
    /\ MtowNotBelow(calculateTakeoffPerformance(args.calculator,
                                                [Inputs EXCEPT !.tora = @ + 500]))
    /\ MtowNotAbove(calculateTakeoffPerformance(args.calculator,
                                                [Inputs EXCEPT !.oat = @ + 1000]))
    /\ MtowNotBelow(calculateTakeoffPerformance(args.calculator,
                                                [Inputs EXCEPT !.wind = @ + 5]))

\* the limit weights a family stores
LimitFields ==
  {"oatLimit", "tRefLimit", "tMaxLimit", "tFlexMaxLimit", "tRefLimitNoBleed",
   "tMaxLimitNoBleed", "tFlexMaxLimitNoBleed"}

\* C15: a call that passed validation and stored its limits stored no NaN
\* limit weight, and neither its MTOW nor its flex temperature is NaN
C15_AsStated ==
  LimitsStored =>
    /\ \A i \in 1..4 : \A field \in DOMAIN ret.limits[LimitingFactors[i]] :
         field \in LimitFields => ~IsNaN(ret.limits[LimitingFactors[i]][field])
    /\ Has(ret, "mtow") => ~IsNaN(ret.mtow)
    /\ Has(ret, "flex") => ~IsNaN(ret.flex)

\* C16: on a dry runway, without forward CG, the MTOW is the oatLimit of the
\* factor governing at OAT, which is the least oatLimit of the four families
\* (part_001 reports no more than structuralMtow)
C16_AsStated ==
  (LimitsStored /\ args.runwayCondition = "Dry" /\ ~args.forwardCg) =>
    /\ ret.limits[ret.oatLimitingFactor].oatLimit = MinLimit(ret, "oatLimit")
    /\ \/ ret.mtow = ret.limits[ret.oatLimitingFactor].oatLimit
       \/ /\ args.calculator = "part_001"
          /\ ret.mtow = structuralMtow
          /\ ret.limits[ret.oatLimitingFactor].oatLimit >= structuralMtow

\* factor, the i-th of LimitingFactor, governs at the anchor temp: no family
\* has a lower limit there and every family before it has a higher one
GovernsAt(limits, temp, i) ==
  /\ \A j \in 1..Len(LimitingFactor) :
       ~NLt(limits[LimitingFactor[j]][temp], limits[LimitingFactor[i]][temp])
  /\ \A j \in 1..(i - 1) :
       NLt(limits[LimitingFactor[i]][temp], limits[LimitingFactor[j]][temp])

FactorIndex(factor) == CHOOSE i \in 1..Len(LimitingFactor) : LimitingFactor[i] = factor

\* C17: getLimitingFactor returns a family holding the least limit at the
\* anchor, the first in the order Runway, SecondSegment, BrakeEnergy, Vmcg of
\* those that share it; so do the four limiting factors a result stores
C17_GoverningFactorIsFirstMinimum ==
  /\ (pc = "returned" /\ op = "getLimitingFactor") =>
       GovernsAt(args.limits, args.temp, FactorIndex(ret))
  /\ LimitsStored =>
       /\ GovernsAt(ret.limits, "oatLimit", FactorIndex(ret.oatLimitingFactor))
       /\ GovernsAt(ret.limits, "tRefLimit", FactorIndex(ret.tRefLimitingFactor))
       /\ GovernsAt(ret.limits, "tMaxLimit", FactorIndex(ret.tMaxLimitingFactor))
       /\ GovernsAt(ret.limits, "tFlexMaxLimit",
                    FactorIndex(ret.tFlexMaxLimitingFactor))

\* SecondSegment and BrakeEnergy share the least limit, below Runway
C17_Witness ==
  /\ pc = "returned"
  /\ op = "getLimitingFactor"
  /\ args.limits.SecondSegment[args.temp] = args.limits.BrakeEnergy[args.temp]
  /\ args.limits.SecondSegment[args.temp] < args.limits.Runway[args.temp]
  /\ args.limits.SecondSegment[args.temp] <= args.limits.Vmcg[args.temp]
  /\ ret = "SecondSegment"

\* C18: a wet-runway call reports no higher MTOW than the same call on a dry
\* runway
C18_AsStated ==
  (LimitsStored /\ args.runwayCondition = "Wet") =>
    MtowNotBelow(calculateTakeoffPerformance(args.calculator,
                                             [Inputs EXCEPT !.runwayCondition = "Dry"]))

\* the returned call reached calculateFlexTemp
FlexSought ==
  /\ LimitsStored
  /\ ~args.forceToga
  /\ ~isContaminated(args.runwayCondition)
  /\ ret.error # "TooHeavy"

\* <<iterFrom, iterTo, from-factor, to-factor>> of the bracket the take-off
\* weight selects
SelectedBracket(r) ==
  IF NGt(r.inputs.tow, r.limits[r.tMaxLimitingFactor].tMaxLimitNoBleed)
    THEN <<r.params.tRef, r.params.tMax, r.tRefLimitingFactor, r.tMaxLimitingFactor>>
  ELSE IF NGt(r.inputs.tow, r.limits[r.tFlexMaxLimitingFactor].tFlexMaxLimitNoBleed)
    THEN <<r.params.tMax, r.params.tFlexMax, r.tMaxLimitingFactor,
           r.tFlexMaxLimitingFactor>>
  ELSE <<r.params.tFlexMax, r.params.tFlexMax + 800, r.tFlexMaxLimitingFactor,
         r.tFlexMaxLimitingFactor>>

\* iterFrom, iterFrom + 1 degree, ... up to iterTo, in hundredths of a degree
ScannedTemperatures(bracket) ==
  { t \in bracket[1]..bracket[2] : (t - bracket[1]) % 100 = 0 }

\* altLimit - deltaT(T) - deltaW(T) of a factor
CandidateTow(r, factor, t) ==
  NSub3(r.limits[factor].altLimit, tempDeltaFunc(factor, t, r),
        windDeltaFunc(factor, t, r))

Qualifies(r, bracket, t) ==
  NLe(r.inputs.tow, NMin(CandidateTow(r, bracket[3], t), CandidateTow(r, bracket[4], t)))

\* found is the largest qualifying temperature of the bracket with the
\* tighter side, or nothing when no temperature qualifies
IsLargestQualifying(r, bracket, found) ==
  IF \A t \in ScannedTemperatures(bracket) : ~Qualifies(r, bracket, t)
    THEN found = <<>>
    ELSE /\ found # <<>>
         /\ found[1] \in ScannedTemperatures(bracket)
         /\ Qualifies(r, bracket, found[1])
         /\ \A t \in ScannedTemperatures(bracket) :
              t > found[1] => ~Qualifies(r, bracket, t)
         /\ found[2] = IF NLe(CandidateTow(r, bracket[3], found[1]),
                              CandidateTow(r, bracket[4], found[1]))
                         THEN bracket[3] ELSE bracket[4]

\* C19: where calculateFlexTemp scans (TOW below the limit at Tref), the
\* temperature it retains is the largest scanned T of the selected bracket with
\* TOW <= min(fromTow(T), toTow(T)), the flex limiting factor is the from-factor
\* when fromTow <= toTow there and the to-factor otherwise, and no flex is
\* emitted when no scanned T qualifies; an emitted flex is the adjustment of
\* the retained temperature
C19_FlexScanKeepsLargest ==
  (FlexSought /\ NLt(ret.inputs.tow, ret.limits[ret.tRefLimitingFactor].tRefLimit)) =>
    /\ IsLargestQualifying(ret, SelectedBracket(ret), scanFlexTemp(ret))
    /\ scanFlexTemp(ret) = <<>> => ~Has(ret, "flex")
    /\ Has(ret, "flex") =>
         /\ ret.flex = adjustedFlexTemp(args.calculator, ret, ret.tvmcg,
                                        scanFlexTemp(ret)[1])
         /\ ret.params.flexLimitingFactor = scanFlexTemp(ret)[2]

\* a scan in which a lower temperature qualifies as well as the one retained,
\* and the flex is emitted
C19_Witness ==
  /\ FlexSought
  /\ Has(ret, "flex")
  /\ scanFlexTemp(ret)[1] >= SelectedBracket(ret)[1] + 200
  /\ Qualifies(ret, SelectedBracket(ret), SelectedBracket(ret)[1])
  /\ \E t \in ScannedTemperatures(SelectedBracket(ret)) : ~Qualifies(ret, SelectedBracket(ret), t)

\* a scan in which no temperature qualifies
C19_WitnessNoFlex ==
  /\ FlexSought
  /\ NLt(ret.inputs.tow, ret.limits[ret.tRefLimitingFactor].tRefLimit)
  /\ scanFlexTemp(ret) = <<>>

\* the flex the same call emits on a dry runway, -1 when it emits none
DryFlex(dry) == IF Has(dry, "flex") THEN dry.flex ELSE -1

\* the reported flex is at most tFlexMax and, on a wet runway, at most other,
\* the flex of the same call on a dry runway
FlexWithin(other) ==
  /\ ret.flex <= ret.params.tFlexMax
  /\ args.runwayCondition = "Wet" => (other # -1 /\ ret.flex <= other)

\* C20: every emitted flex is at most tFlexMax, and a flex emitted on a wet
\* runway is at most the flex the same call emits on a dry runway
C20_AsStated ==
  (FlexSought /\ Has(ret, "flex")) =>
    FlexWithin(DryFlex(calculateTakeoffPerformance(
                         args.calculator, [Inputs EXCEPT !.runwayCondition = "Dry"])))

(* Claims on reconcileVSpeeds *)

Reconciled == pc = "returned" /\ op \in {"reconcileVSpeeds", "reconcileVSpeeds again"}

\* whole knots are what the integer lanes hold; the floor of V2, whole knots
MinimumV2(min) == Max2(min.minV2Vmc, min.minv2Vmu)

\* C21: reconcileVSpeeds returns V1 <= Vr <= V2; when it leaves no
\* VmcgVmcaLimits and no MaximumTireSpeed each speed is at least its floor; and
\* a Vr or V1 returned below its floor comes with VmcgVmcaLimits unless the
\* tire speed error was raised
C21_ReconciledOrderAndFloors ==
  Reconciled =>
    /\ ret.v1 \in Int /\ ret.vR \in Int /\ ret.v2 \in Int
    /\ ret.v1 <= ret.vR
    /\ ret.vR <= ret.v2
    /\ ret.error \notin {"VmcgVmcaLimits", "MaximumTireSpeed"} =>
         /\ ret.v1 >= minimumSpeeds(args.result).minV1Vmc
         /\ ret.vR >= minimumSpeeds(args.result).minVrVmc
         /\ ret.v2 >= MinimumV2(minimumSpeeds(args.result))
    /\ (ret.vR < minimumSpeeds(args.result).minVrVmc
         \/ ret.v1 < minimumSpeeds(args.result).minV1Vmc) =>
         ret.error = "VmcgVmcaLimits"

\* V1 was handed in above Vr and lowered below its floor
C21_Witness ==
  /\ pc = "returned"
  /\ op = "reconcileVSpeeds"
  /\ args.v1 > args.vR
  /\ ret.v1 = ret.vR
  /\ ret.v1 < minimumSpeeds(args.result).minV1Vmc
  /\ ret.error = "VmcgVmcaLimits"

\* a speed handed in below its floor comes back at the floor without an error
C21_WitnessFloored ==
  /\ pc = "returned"
  /\ op = "reconcileVSpeeds"
  /\ args.v1 < 100 * minimumSpeeds(args.result).minV1Vmc
  /\ ret.v1 = minimumSpeeds(args.result).minV1Vmc
  /\ ret.error = "None"

\* the speeds as floored and rounded, before the ordering and tire rules
FlooredArgs ==
  flooredSpeeds(args.result, minimumSpeeds(args.result), args.v1, args.vR, args.v2)

\* C22: with the floored V2 above 195, a Vr above 195 gives MaximumTireSpeed
\* and any other Vr comes back at most 195 - (V2 - 195), so that without
\* MaximumTireSpeed Vr + V2 <= 390; with V2 at most 195 the returned Vr is the
\* floored Vr lowered to V2 at most
C22_TireSpeedRule ==
  Reconciled =>
    /\ ret.v2 = FlooredArgs.v2
    /\ (ret.v2 > 195 /\ Min2(FlooredArgs.vR, FlooredArgs.v2) > 195) =>
         ret.error = "MaximumTireSpeed"
    /\ (ret.v2 > 195 /\ Min2(FlooredArgs.vR, FlooredArgs.v2) <= 195) =>
         /\ ret.vR <= 195 - (ret.v2 - 195)
         /\ ret.error # "MaximumTireSpeed"
    /\ (ret.v2 > 195 /\ ret.error # "MaximumTireSpeed") => ret.vR + ret.v2 <= 390
    /\ ret.v2 <= 195 =>
         /\ ret.vR = Min2(FlooredArgs.vR, FlooredArgs.v2)
         /\ ret.error # "MaximumTireSpeed"

\* V2 above 195 and a Vr lowered to 195 - (V2 - 195)
C22_Witness ==
  /\ pc = "returned"
  /\ op = "reconcileVSpeeds"
  /\ ret.v2 > 195
  /\ FlooredArgs.vR <= 195
  /\ FlooredArgs.vR > ret.vR
  /\ ret.vR = 195 - (ret.v2 - 195)
  /\ ret.error = "None"

\* V2 and Vr above 195
C22_WitnessTireSpeed ==
  /\ pc = "returned"
  /\ op = "reconcileVSpeeds"
  /\ FlooredArgs.vR > 195
  /\ ret.error = "MaximumTireSpeed"

\* C23: reconcileVSpeeds applied to the speeds it returned without an error,
\* for the same pressure altitude, conf and weight, returns them unchanged
\* and sets no error
C23_ReconcileIdempotent ==
  (pc = "returned" /\ op = "reconcileVSpeeds again" /\ args.first.error = "None") =>
    ret = args.first

\* the first application changed the speeds it was handed
C23_Witness ==
  /\ pc = "returned"
  /\ op = "reconcileVSpeeds again"
  /\ args.first.error = "None"
  /\ args.first.v2 > 195
  /\ args.first.vR = 195 - (args.first.v2 - 195)
  /\ ret = args.first

(* Claims on the slope and wind corrections *)

\* the slopeLimit of a family for the returned call with the slope set to 0
SlopeLimitAtSlope0(factor) ==
  calculateWeightLimits(args.calculator, factor,
                        [ret EXCEPT !.inputs.slope = 0]).slopeLimit

\* C24 as stated: a downhill slope gives a slopeLimit no higher than at slope
\* 0, an uphill slope one no lower, in every family
C24_AsStated ==
  LimitsStored =>
    \A i \in 1..Len(LimitingFactor) :
      /\ args.slope < 0 =>
           ret.limits[LimitingFactor[i]].slopeLimit <= SlopeLimitAtSlope0(LimitingFactor[i])
      /\ args.slope > 0 =>
           ret.limits[LimitingFactor[i]].slopeLimit >= SlopeLimitAtSlope0(LimitingFactor[i])

\* C24 amended: with a positive adjusted runway length a downhill slope gives a
\* slopeLimit no lower than at slope 0 and an uphill slope one no higher, in
\* every family, slopeLimit being baseLimit less the slope correction
C24_DownhillRaisesSlopeLimit ==
  (LimitsStored /\ ret.params.adjustedTora > 0) =>
    \A i \in 1..Len(LimitingFactor) :
      /\ ret.limits[LimitingFactor[i]].baseLimit = SlopeLimitAtSlope0(LimitingFactor[i])
      /\ args.slope < 0 =>
           ret.limits[LimitingFactor[i]].slopeLimit >= SlopeLimitAtSlope0(LimitingFactor[i])
      /\ args.slope > 0 =>
           ret.limits[LimitingFactor[i]].slopeLimit <= SlopeLimitAtSlope0(LimitingFactor[i])

\* a downhill runway with every slopeLimit above the one at slope 0
C24_Witness ==
  /\ LimitsStored
  /\ args.slope < 0
  /\ \A i \in 1..Len(LimitingFactor) :
       ret.limits[LimitingFactor[i]].slopeLimit > SlopeLimitAtSlope0(LimitingFactor[i])

\* the anchors and every fifth degree from Tref up to Tflexmax
WindDeltaTemperatures ==
  {args.oat, ret.params.tRef, ret.params.tMax, ret.params.tFlexMax}
    \cup { t \in ret.params.tRef..ret.params.tFlexMax : (t - ret.params.tRef) % 500 = 0 }

\* a correction that never works against the wind: none for still air, none
\* above 0 for a headwind, none below 0 for a tailwind
WindDeltaSigned(delta, wind) ==
  /\ ~IsNaN(delta)
  /\ wind > 0 => delta <= 0
  /\ wind < 0 => delta >= 0
  /\ wind = 0 => delta = 0

\* the limits of a family for the returned call in still air
StillAirLimits(factor) ==
  calculateWeightLimits(args.calculator, factor, [ret EXCEPT !.params.headwind = 0])

\* C25: in every family the wind delta at a temperature up to Tflexmax is at
\* most 0 for a headwind, at least 0 for a tailwind and 0 for still air, so
\* that no limit weight is below its still-air value with a headwind or above
\* it with a tailwind
C25_WindDeltaNeverAgainstWind ==
  LimitsStored =>
    \A i \in 1..Len(LimitingFactor) :
      /\ \A t \in WindDeltaTemperatures :
           t <= ret.params.tFlexMax =>
             WindDeltaSigned(windDeltaFunc(LimitingFactor[i], t, ret),
                             ret.params.headwind)
      /\ args.oat <= ret.params.tFlexMax =>
           /\ ret.limits[LimitingFactor[i]].oatDeltaWind
                = windDeltaFunc(LimitingFactor[i], args.oat, ret)
           /\ ret.params.headwind > 0 =>
                ret.limits[LimitingFactor[i]].oatLimit
                  >= StillAirLimits(LimitingFactor[i]).oatLimit
           /\ ret.params.headwind < 0 =>
                ret.limits[LimitingFactor[i]].oatLimit
                  <= StillAirLimits(LimitingFactor[i]).oatLimit

\* a headwind that raises a limit and leaves another where it is in still air
C25_Witness ==
  /\ LimitsStored
  /\ ret.params.headwind > 0
  /\ \E i \in 1..Len(LimitingFactor) : ret.limits[LimitingFactor[i]].oatDeltaWind < 0
  /\ \E i \in 1..Len(LimitingFactor) : ret.limits[LimitingFactor[i]].oatDeltaWind = 0

\* a tailwind that lowers a limit
C25_WitnessTailwind ==
  /\ LimitsStored
  /\ ret.params.headwind < 0
  /\ \E i \in 1..Len(LimitingFactor) : ret.limits[LimitingFactor[i]].oatDeltaWind > 0

(* ------------------------------------------------------------------ *)
(* VLS table interpolation                                              *)
(* ------------------------------------------------------------------ *)

VlsReturned == pc = "returned" /\ op = "getInterpolatedVlsTableValue"

\* the k-th breakpoint (k = 0..8) in kg: equally spaced from 270 t to 512 t
VlsBreakpoint(k) == 270000 + k * ((512000 - 270000) \div 8)

\* the piecewise-linear interpolation of the table at mass (kg), in
\* thousandths of a knot, held at the end entries outside the table
VlsPiecewiseLinear(mass, table) ==
  IF mass <= VlsBreakpoint(0) THEN 1000 * table[1]
  ELSE IF mass >= VlsBreakpoint(8) THEN 1000 * table[9]
  ELSE LET k == CHOOSE j \in 0..7 : VlsBreakpoint(j) <= mass /\ mass < VlsBreakpoint(j + 1)
       IN  1000 * table[k + 1]
             + (1000 * (table[k + 2] - table[k + 1]) * (mass - VlsBreakpoint(k)))
                 \div (VlsBreakpoint(k + 1) - VlsBreakpoint(k))

\* C26: for every mass, getInterpolatedVlsTableValue returns the piecewise-
\* linear interpolation of the 9-entry VLS table over equally spaced
\* breakpoints from 270 t to 512 t: the table entry at each breakpoint, a
\* value between the two bracketing entries strictly between breakpoints, the
\* first entry at or below 270 t and the last entry at or above 512 t; the
\* result is non-decreasing in mass.
C26_AsStated ==
  VlsReturned =>
    /\ ret = VlsPiecewiseLinear(args.mass, args.vlsSpeedTable)
    /\ \A k \in 0..8 : args.mass = VlsBreakpoint(k) => ret = 1000 * args.vlsSpeedTable[k + 1]
    /\ \A k \in 0..7 :
         (VlsBreakpoint(k) < args.mass /\ args.mass < VlsBreakpoint(k + 1))
           => /\ 1000 * args.vlsSpeedTable[k + 1] <= ret
              /\ ret <= 1000 * args.vlsSpeedTable[k + 2]
    /\ args.mass <= VlsBreakpoint(0) => ret = 1000 * args.vlsSpeedTable[1]
    /\ args.mass >= VlsBreakpoint(8) => ret = 1000 * args.vlsSpeedTable[9]
    /\ \A lighter \in VlsMasses :
         lighter <= args.mass
           => getInterpolatedVlsTableValue(lighter, args.vlsSpeedTable) <= ret

(* ------------------------------------------------------------------ *)
(* Termination of calculateTakeoffPerformance                           *)
(* ------------------------------------------------------------------ *)

\* the call that returned r ran the loop of calculateFlexTemp
FlexScanned(r) ==
  /\ Has(r, "limits")
  /\ ~r.inputs.forceToga
  /\ ~isContaminated(r.inputs.runwayCondition)
  /\ r.error # "TooHeavy"
  /\ NLt(r.inputs.tow, r.limits[r.tRefLimitingFactor].tRefLimit)

\* the iterations of the scan of the call that returned r
ScanSteps(r) == flexScanSteps(SelectedBracket(r)[1], SelectedBracket(r)[2])

\* the scan of r runs at most iterTo - iterFrom + 1 times, at most 60 times,
\* and not at all when iterFrom > iterTo
ScanBounded(r) ==
  FlexScanned(r) =>
    /\ ScanSteps(r) >= 0
    /\ ScanSteps(r) <= 60
    /\ SelectedBracket(r)[1] <= SelectedBracket(r)[2]
         => 100 * ScanSteps(r) <= SelectedBracket(r)[2] - SelectedBracket(r)[1] + 100
    /\ SelectedBracket(r)[1] > SelectedBracket(r)[2] => ScanSteps(r) = 0

\* the result of the forceToga re-entry of the returned call
TailwindResult == calculateTakeoffPerformance(args.calculator, forceTogaInputs(Inputs))

\* the returned call made the forceToga re-entry
Reentered == TakeoffReturned /\ args.forceToga /\ InputsValid /\ ret.error # "TooHeavy"

\* C27: every calculateTakeoffPerformance call terminates: a forceToga call
\* re-enters the calculation at most once, the re-entry running with
\* forceToga = false, and the flex scan of the call or of its re-entry runs at
\* most iterTo - iterFrom + 1 steps, no more than 60, in whichever bracket is
\* chosen, and no step when iterFrom > iterTo.
C27_CallsTerminate ==
  TakeoffReturned =>
    /\ reentries(Inputs) <= 1
    /\ args.forceToga =>
         /\ ~forceTogaInputs(Inputs).forceToga
         /\ reentries(forceTogaInputs(Inputs)) = 0
    /\ ScanBounded(ret)
    /\ Reentered => ScanBounded(TailwindResult)

\* a forceToga call whose re-entry scanned at least twenty temperatures
C27_Witness ==
  /\ Reentered
  /\ reentries(Inputs) = 1
  /\ FlexScanned(TailwindResult)
  /\ ScanSteps(TailwindResult) >= 20

\* a scan of no step: the bracket starts above its end
C27_WitnessNoStep ==
  /\ TakeoffReturned
  /\ FlexScanned(ret)
  /\ SelectedBracket(ret)[1] > SelectedBracket(ret)[2]
  /\ ScanSteps(ret) = 0

\* a scan of the first and a scan of the second bracket
C27_WitnessFirstBracket ==
  /\ TakeoffReturned
  /\ FlexScanned(ret)
  /\ SelectedBracket(ret)[1] = ret.params.tRef
  /\ ScanSteps(ret) >= 2

C27_WitnessSecondBracket ==
  /\ TakeoffReturned
  /\ FlexScanned(ret)
  /\ SelectedBracket(ret)[1] = ret.params.tMax
  /\ ScanSteps(ret) >= 2

(* ------------------------------------------------------------------ *)
(* Order of the input checks                                            *)
(* ------------------------------------------------------------------ *)

\* the error codes in the order of their checks
ValidationOrder ==
  <<"InvalidData", "StructuralMtow", "MaximumPressureAlt", "MaximumTemperature",
    "OperatingEmptyWeight", "CgOutOfLimits", "MaximumTailwind", "MaximumRunwaySlope">>

\* the code of the first failing check
FirstFailedValidation ==
  ValidationOrder[CHOOSE i \in 1..Len(ValidationOrder) :
                    /\ ValidationOrder[i] \in FailedValidations
                    /\ \A j \in 1..(i - 1) : ValidationOrder[j] \notin FailedValidations]

\* C28: when several input checks fail at once the error is that of the first
\* failing check in the order invalid conf, tow > structuralMtow,
\* pressureAlt > maxPressureAlt, oat > tMax, tow < oew, supplied CG outside
\* limits, wind < -maxTailwind, |slope| > 2.
C28_FirstFailingCheckReported ==
  (TakeoffReturned /\ ~InputsValid) => ret.error = FirstFailedValidation

\* temperature, weight floor, CG, tailwind and slope fail together
C28_Witness ==
  /\ TakeoffReturned
  /\ FailedValidations = {"MaximumTemperature", "OperatingEmptyWeight", "CgOutOfLimits",
                          "MaximumTailwind", "MaximumRunwaySlope"}
  /\ ret.error = "MaximumTemperature"

\* every check is the first to fail in some call that fails another as well
C28_WitnessInvalidData ==
  TakeoffReturned /\ Cardinality(FailedValidations) >= 5 /\ ret.error = "InvalidData"

C28_WitnessStructuralMtow ==
  TakeoffReturned /\ Cardinality(FailedValidations) >= 2 /\ ret.error = "StructuralMtow"

C28_WitnessPressureAlt ==
  TakeoffReturned /\ Cardinality(FailedValidations) >= 2 /\ ret.error = "MaximumPressureAlt"

C28_WitnessOew ==
  TakeoffReturned /\ Cardinality(FailedValidations) >= 2 /\ ret.error = "OperatingEmptyWeight"

C28_WitnessCg ==
  TakeoffReturned /\ Cardinality(FailedValidations) >= 2 /\ ret.error = "CgOutOfLimits"

C28_WitnessTailwind ==
  TakeoffReturned /\ Cardinality(FailedValidations) >= 2 /\ ret.error = "MaximumTailwind"

(* ------------------------------------------------------------------ *)
(* The error code within one call                                       *)
(* ------------------------------------------------------------------ *)

\* the error the MTOW step assigns on the result of the returned call, "None"
\* when it assigns none
RaisedWithMtow ==
  runwayConditionMtow(args.calculator, ret,
                      ret.limits[ret.tRefLimitingFactor].oatLimit)[2]

C29_WitnessInvalidData ==
  /\ LimitsStored
  /\ args.calculator = "a380x_takeoff"
  /\ RaisedWithMtow = "InvalidData"
  /\ AdjustedMtow >= args.tow
  /\ ret.error = "InvalidData"

\* a raised error replaced by TooHeavy, in either calculator
C29_WitnessTooLightReplaced ==
  /\ LimitsStored
  /\ RaisedWithMtow = "TooLight"
  /\ AdjustedMtow < args.tow
  /\ ret.error = "TooHeavy"

C29_WitnessInvalidDataReplaced ==
  /\ LimitsStored
  /\ RaisedWithMtow = "InvalidData"
  /\ AdjustedMtow < args.tow
  /\ ret.error = "TooHeavy"

\* stabTrim set on a result with an error
C29_WitnessStabTrim ==
  /\ TakeoffReturned
  /\ Has(args, "cg")
  /\ ret.error \notin {"None", "CgOutOfLimits"}
  /\ Has(ret, "stabTrim")

(* ------------------------------------------------------------------ *)
(* forwardCg and the weight outcome                                     *)
(* ------------------------------------------------------------------ *)

\* the MTOW of the returned call before the forward-CG addition
PreCorrectionMtow ==
  runwayConditionMtow(args.calculator, ret,
                      ret.limits[ret.tRefLimitingFactor].oatLimit)[1]

\* the result of the same call with forwardCg the other way
OtherForwardCg ==
  calculateTakeoffPerformance(args.calculator,
                              [Inputs EXCEPT !.forwardCg = ~args.forwardCg])

C30_WitnessTooHeavy ==
  /\ LimitsStored
  /\ applyForwardCgWeightCorrection(TRUE, ret.oatLimitingFactor)
  /\ NGe(PreCorrectionMtow, oew)
  /\ ret.error = "TooHeavy"
  /\ OtherForwardCg.error = "TooHeavy"
====
